---- MODULE Spec2Model ----
(***************************************************************************)
(* Model of controle_de_financas: the App shell and the stored log         *)
(* (services/storage.ts),                                                  *)
(* the entry form (components/TransactionForm.tsx), the transaction list   *)
(* with the fixed-transaction reconciliation (components/TransactionList)  *)
(* and the dashboard summary (components/Dashboard.tsx).                   *)
(*                                                                         *)
(* JavaScript strings that the code takes apart (dates, the month filter,  *)
(* the amount typed in the form) are sequences of one-character strings,   *)
(* so that startsWith, split, Number, String, padStart and parseFloat are  *)
(* computed as the code computes them.  Titles and categories are atomic   *)
(* strings where they are compared for equality, and the search takes them *)
(* apart into their characters (Chars).  Amounts and the sums of the       *)
(* dashboard are JavaScript numbers, IEEE 754 doubles held exactly, and    *)
(* +, -, / and * round as the doubles do.  null is the empty sequence and  *)
(* a non-null value v is <<v>>.  The item in localStorage is a text tagged *)
(* as empty, not JSON, or the JSON text of a value.                        *)
(***************************************************************************)
EXTENDS Integers, Sequences, FiniteSets, TLC

VARIABLES
    transactions,        \* App: useState<Transaction[]>
    isFormOpen,          \* App: useState(false)
    editingTransaction,  \* App: useState<Transaction | null>, <<>> or <<t>>
    filterMonth,         \* TransactionList: useState(YYYY-MM)
    searchTerm,          \* TransactionList: useState('')
    baseTransactions,    \* TransactionList: the filtered and sorted list
    groupedTransactions, \* TransactionList: the list grouped by date
    pending,             \* TransactionList: useMemo pendingFixedTransactions
    stats,               \* Dashboard: useMemo stats, <<>> while not mounted
    percentText,         \* Dashboard: the "% Recebido" and "% Pago" texts
    categoryData,        \* Dashboard: useMemo categoryData
    annualReportData,    \* Dashboard: useMemo annualReportData
    alerts,              \* Dashboard: useMemo alerts
    activeTab,           \* App: useState<Tab>('dashboard')
    lenientDates,        \* the engine's Date parser accepts a day past month end
    legacyRoot,          \* the root is a legacy root (ReactDOM.render), not createRoot
    idCounter,           \* number of ids generateId has handed out
    storage,             \* localStorage item STORAGE_KEY: <<>> or <<text>>
    storageFull,         \* localStorage.setItem throws (quota exceeded)
    phase,               \* App: "start", "loading", "committed", "ready" or "crashed"
    loaded               \* App: the updates of transactions that wait for their
                         \* render: the value of the load effect, then updaters

vars == <<transactions, isFormOpen, editingTransaction, filterMonth,
          searchTerm, baseTransactions, groupedTransactions, pending, stats, percentText, categoryData, annualReportData, alerts,
          activeTab, lenientDates, legacyRoot, idCounter, storage,
          storageFull, phase, loaded>>

----------------------------------------------------------------------------
(* Bounds of the model *)

\* generateId is called at most MaxId times in a run
MaxId == 2
\* length of the stored logs a run of SpecRecon starts from
MaxReconLog == 2
\* length of the stored logs a run of SpecDash starts from
MaxDashLog == 3
\* length of the stored logs a run of SpecAlert starts from
MaxAlertLog == 4
\* length of the stored logs a run of SpecList starts from
MaxListLog == 3
\* length of the stored logs a run of SpecStore starts from
MaxStoreLog == 1
\* length of the stored logs a run of SpecForm starts from
MaxFormLog == 2

----------------------------------------------------------------------------
(* JavaScript string and number primitives *)

DigitChars == <<"0", "1", "2", "3", "4", "5", "6", "7", "8", "9">>

IsDigit(c) == \E i \in 1..10 : DigitChars[i] = c

\* the value of each digit character
DigitTable ==
    [c \in {DigitChars[i] : i \in 1..10} |->
        (CHOOSE i \in 1..10 : DigitChars[i] = c) - 1]

DigitVal(c) == DigitTable[c]

\* the number written by the first k digits of s, for k = Len(s)
DigitsToNat(s) ==
    LET value[k \in 0..Len(s)] ==
            IF k = 0 THEN 0 ELSE 10 * value[k - 1] + DigitVal(s[k])
    IN  value[Len(s)]

\* Number(s) for a string of decimal digits ("" gives 0)
Number(s) == DigitsToNat(s)

RECURSIVE NatToDigits(_)
NatToDigits(n) ==
    IF n < 10 THEN <<DigitChars[n + 1]>>
    ELSE NatToDigits(n \div 10) \o <<DigitChars[(n % 10) + 1]>>

\* String(n) for an integer n
String(n) == IF n < 0 THEN <<"-">> \o NatToDigits(-n) ELSE NatToDigits(n)

RECURSIVE PadStart(_, _, _)
PadStart(s, n, c) == IF Len(s) >= n THEN s ELSE PadStart(<<c>> \o s, n, c)

StartsWith(s, p) == Len(p) <= Len(s) /\ SubSeq(s, 1, Len(p)) = p

RECURSIVE Split(_, _)
Split(s, sep) ==
    IF \A i \in 1..Len(s) : s[i] # sep THEN <<s>>
    ELSE LET k == CHOOSE i \in 1..Len(s) :
                      s[i] = sep /\ \A j \in 1..(i - 1) : s[j] # sep
         IN  <<SubSeq(s, 1, k - 1)>> \o Split(SubSeq(s, k + 1, Len(s)), sep)

\* The Number type: a finite IEEE 754 double is held exactly, as the sign
\* and m * 2^e with m a natural number written in limbs of 15 bits, the most
\* significant first and no leading zero limb. In a Number m is odd, or m
\* is 0 and e is 0: numbers that are equal are equal values of the model,
\* but for 0 and -0. The operations are functions, so that each is applied
\* to the value of its argument.
Limb == 32768

Double == [neg : BOOLEAN, m : Seq(Nat), e : Int]

Pow2 == [k \in 0..30 |-> 2^k]

\* the limbs of n without its leading zero limbs
Strip[n \in Seq(Nat)] ==
    IF \A i \in 1..Len(n) : n[i] = 0 THEN <<0>>
    ELSE SubSeq(n, CHOOSE i \in 1..Len(n) :
                       n[i] # 0 /\ \A j \in 1..(i - 1) : n[j] = 0, Len(n))

\* the natural number of limbs whose value is below 2^31
LimbsToNat[n \in Seq(Nat)] ==
    LET value[k \in 0..Len(n)] ==
            IF k = 0 THEN 0 ELSE Limb * value[k - 1] + n[k]
    IN  value[Len(n)]

\* the number of bits of a limb x > 0
BitLen[x \in Nat] == CHOOSE b \in 1..15 : Pow2[b - 1] <= x /\ x < Pow2[b]

\* the number of bits of the limbs n, n # 0 without leading zero limb
BitLength[n \in Seq(Nat)] == 15 * (Len(n) - 1) + BitLen[n[1]]

\* the number of zero bits at the low end of a limb x > 0
LowZeros[x \in Nat] ==
    CHOOSE b \in 0..14 : x % Pow2[b] = 0 /\ x % Pow2[b + 1] # 0

\* the number of zero limbs at the low end of the limbs n, n # 0
ZeroLimbs[n \in Seq(Nat)] ==
    CHOOSE z \in 0..(Len(n) - 1) :
        n[Len(n) - z] # 0 /\ \A j \in 0..(z - 1) : n[Len(n) - j] = 0

\* the number of zero bits at the low end of the limbs n, n # 0
TrailingZeros[n \in Seq(Nat)] ==
    15 * ZeroLimbs[n] + LowZeros[n[Len(n) - ZeroLimbs[n]]]

\* a long division under way: the quotient so far and the remainder
DivState == [q : Seq(Nat), r : Nat]

\* one step of the long division by d: the limb is brought down
DivStep[prev \in DivState, limb \in Nat, d \in Nat] ==
    [q |-> Append(prev.q, (prev.r * Limb + limb) \div d),
     r |-> (prev.r * Limb + limb) % d]

\* quotient (of as many limbs as n) and remainder of n by d, 0 < d <= 2^15
DivMod[n \in Seq(Nat), d \in Nat] ==
    LET upTo[k \in 0..Len(n)] ==
            IF k = 0 THEN [q |-> <<>>, r |-> 0]
            ELSE DivStep[upTo[k - 1], n[k], d]
    IN  upTo[Len(n)]

\* an addition, subtraction or multiplication under way: the limbs so far
\* and the carry
MulState == [m : Seq(Nat), carry : Nat]

\* one step of the multiplication by c, from the least significant limb
MulStep[prev \in MulState, limb \in Nat, c \in Nat] ==
    [m     |-> <<(limb * c + prev.carry) % Limb>> \o prev.m,
     carry |-> (limb * c + prev.carry) \div Limb]

\* n * c + a, for 0 <= c, a < 2^15, with the last carry as first limb
MulAddCarry[n \in Seq(Nat), c \in Nat, a \in Nat] ==
    LET upTo[k \in 0..Len(n)] ==
            IF k = 0 THEN [m |-> <<>>, carry |-> a]
            ELSE MulStep[upTo[k - 1], n[Len(n) + 1 - k], c]
    IN  upTo[Len(n)]

AfterCarry[prod \in MulState] ==
    Strip[<<prod.carry>> \o prod.m]

\* the limbs of n * c + a
MulAdd[n \in Seq(Nat), c \in Nat, a \in Nat] == AfterCarry[MulAddCarry[n, c, a]]

\* the limbs of n * 2^j
ShiftLeft[n \in Seq(Nat), j \in Nat] ==
    Strip[MulAdd[n, Pow2[j % 15], 0] \o [i \in 1..(j \div 15) |-> 0]]

\* the limbs of n / 2^j rounded down
ShiftRight[n \in Seq(Nat), j \in Nat] ==
    IF j \div 15 >= Len(n) THEN <<0>>
    ELSE Strip[SubSeq(DivMod[n, Pow2[j % 15]].q, 1, Len(n) - (j \div 15))]

\* n < k, for limbs without leading zero limb
Less[n \in Seq(Nat), k \in Seq(Nat)] ==
    IF Len(n) # Len(k) THEN Len(n) < Len(k)
    ELSE \E i \in 1..Len(n) :
            n[i] < k[i] /\ \A j \in 1..(i - 1) : n[j] = k[j]

\* the i-th limb of n from the low end, 0 past the first limb
LimbAt[n \in Seq(Nat), i \in Nat] == IF i <= Len(n) THEN n[Len(n) + 1 - i] ELSE 0

\* one step of the addition, from the least significant limb
PlusStep[prev \in MulState, a \in Nat, b \in Nat] ==
    [m     |-> <<(a + b + prev.carry) % Limb>> \o prev.m,
     carry |-> (a + b + prev.carry) \div Limb]

\* the limbs of n + k
Plus[n \in Seq(Nat), k \in Seq(Nat)] ==
    LET len == IF Len(n) > Len(k) THEN Len(n) ELSE Len(k)
        upTo[i \in 0..len] ==
            IF i = 0 THEN [m |-> <<>>, carry |-> 0]
            ELSE PlusStep[upTo[i - 1], LimbAt[n, i], LimbAt[k, i]]
    IN  AfterCarry[upTo[len]]

\* one step of the subtraction, the carry being what was borrowed
MinusStep[prev \in MulState, a \in Nat, b \in Nat] ==
    IF a >= b + prev.carry
    THEN [m |-> <<a - b - prev.carry>> \o prev.m, carry |-> 0]
    ELSE [m |-> <<(Limb + a) - b - prev.carry>> \o prev.m, carry |-> 1]

\* the limbs of n - k, for n >= k
Minus[n \in Seq(Nat), k \in Seq(Nat)] ==
    LET upTo[i \in 0..Len(n)] ==
            IF i = 0 THEN [m |-> <<>>, carry |-> 0]
            ELSE MinusStep[upTo[i - 1], LimbAt[n, i], LimbAt[k, i]]
    IN  Strip[upTo[Len(n)].m]

\* 0 or -0
Zero(neg) == [neg |-> neg, m |-> <<0>>, e |-> 0]

\* the Number of the value x.m * 2^x.e: the zero bits at the low end of x.m
\* go to the exponent
Canonical[x \in Double] ==
    IF x.m = <<0>> THEN Zero(x.neg)
    ELSE [neg |-> x.neg,
          m   |-> ShiftRight[x.m, TrailingZeros[x.m]],
          e   |-> x.e + TrailingZeros[x.m]]

\* the Number of an integer n, |n| < 2^30
Num(n) ==
    Canonical[[neg |-> n < 0,
               m   |-> Strip[<<(IF n < 0 THEN 0 - n ELSE n) \div Limb,
                               (IF n < 0 THEN 0 - n ELSE n) % Limb>>],
               e   |-> 0]]

\* -x
Negated(x) == [x EXCEPT !.neg = ~x.neg]

\* (q + 1/2 or more) * 2^e, if half or sticky, to the nearest q, a tie to
\* the even one
HalfEven[neg \in BOOLEAN, q \in Seq(Nat), half \in BOOLEAN, sticky \in BOOLEAN, e \in Int] ==
    Canonical[[neg |-> neg,
               m   |-> IF half /\ (sticky \/ q[Len(q)] % 2 = 1)
                       THEN MulAdd[q, 1, 1] ELSE q,
               e   |-> e]]

\* h holds 54 bits of a value, sticky says that bits were cut off
RoundHalf[neg \in BOOLEAN, h \in Seq(Nat), sticky \in BOOLEAN, e \in Int] ==
    HalfEven[neg, ShiftRight[h, 1], h[Len(h)] % 2 = 1, sticky, e]

\* the double nearest to y * 2^e, y # 0 of the number of bits given: y is
\* rounded to 53 bits, a tie to the even one
Rounded[neg \in BOOLEAN, y \in Seq(Nat), e \in Int, bits \in Nat] ==
    IF bits <= 53 THEN Canonical[[neg |-> neg, m |-> y, e |-> e]]
    ELSE RoundHalf[neg, ShiftRight[y, bits - 54],
                   TrailingZeros[y] < bits - 54, e + (bits - 53)]

\* the double nearest to the value x.m * 2^x.e
Round53[x \in Double] ==
    IF x.m = <<0>> THEN Zero(x.neg)
    ELSE Rounded[x.neg, x.m, x.e, BitLength[x.m]]

\* a * 2^e of the sign nega plus b * 2^e of the sign negb, exactly
Aligned[nega \in BOOLEAN, a \in Seq(Nat), negb \in BOOLEAN, b \in Seq(Nat), e \in Int] ==
    IF nega = negb THEN [neg |-> nega, m |-> Plus[a, b], e |-> e]
    ELSE IF a = b THEN Zero(FALSE)
    ELSE IF Less[a, b] THEN [neg |-> negb, m |-> Minus[b, a], e |-> e]
    ELSE [neg |-> nega, m |-> Minus[a, b], e |-> e]

\* the value x + y, not rounded
Sum[x \in Double, y \in Double] ==
    IF x.m = <<0>> THEN (IF y.m = <<0>> THEN Zero(x.neg /\ y.neg) ELSE y)
    ELSE IF y.m = <<0>> THEN x
    ELSE IF x.e < y.e
    THEN Aligned[x.neg, x.m, y.neg, ShiftLeft[y.m, y.e - x.e], x.e]
    ELSE Aligned[x.neg, ShiftLeft[x.m, x.e - y.e], y.neg, y.m, y.e]

\* x + y of the Number type
Add[x \in Double, y \in Double] == Round53[Sum[x, y]]

\* x - y of the Number type
Subtract[x \in Double, y \in Double] == Round53[Sum[x, Negated(y)]]

\* a long division by a number of more than one limb under way
LongState == [q : Seq(Nat), r : Seq(Nat)]

\* a first guess of the quotient r / d, from the first limbs: at most 2 too
\* large when the first limb of d has 15 bits and r < d * 2^15
Trial[r \in Seq(Nat), d \in Seq(Nat)] ==
    IF Len(r) < Len(d) THEN 0
    ELSE IF Len(r) = Len(d) THEN r[1] \div d[1]
    ELSE IF (r[1] * Limb + r[2]) \div d[1] >= Limb THEN Limb - 1
    ELSE (r[1] * Limb + r[2]) \div d[1]

\* the quotient r / d rounded down, from the guess c
QuotientLimb[r \in Seq(Nat), d \in Seq(Nat), c \in Nat] ==
    IF ~Less[r, MulAdd[d, c, 0]] THEN c
    ELSE IF ~Less[r, MulAdd[d, c - 1, 0]] THEN c - 1
    ELSE c - 2

\* the quotient limb c is taken and d * c leaves the remainder
Taken[q \in Seq(Nat), r \in Seq(Nat), d \in Seq(Nat), c \in Nat] ==
    [q |-> Append(q, c), r |-> Minus[r, MulAdd[d, c, 0]]]

\* the remainder r with the next limb brought down is divided by d
BroughtDown[q \in Seq(Nat), r \in Seq(Nat), d \in Seq(Nat)] ==
    Taken[q, r, d, QuotientLimb[r, d, Trial[r, d]]]

\* one step of the long division by d
LongStep[prev \in LongState, limb \in Nat, d \in Seq(Nat)] ==
    BroughtDown[prev.q, Strip[prev.r \o <<limb>>], d]

\* quotient and remainder of n by d, the first limb of d having 15 bits
LongDiv[n \in Seq(Nat), d \in Seq(Nat)] ==
    LET upTo[k \in 0..Len(n)] ==
            IF k = 0 THEN [q |-> <<>>, r |-> <<0>>]
            ELSE LongStep[upTo[k - 1], n[k], d]
    IN  upTo[Len(n)]

\* the double nearest to (q + r / d) * 2^e, of q and whether r is 0
Fraction[neg \in BOOLEAN, qr \in LongState, e \in Int] ==
    Round53[[neg |-> neg,
             m   |-> MulAdd[Strip[qr.q], 2, IF qr.r = <<0>> THEN 0 ELSE 1],
             e   |-> e - 1]]

\* the double nearest to (p / t) * 2^e: p * 2^s / t has 56 bits or more,
\* and sh brings the first limb of t to 15 bits
Ratio[neg \in BOOLEAN, p \in Seq(Nat), t \in Seq(Nat), e \in Int, s \in Nat, sh \in Nat] ==
    Fraction[neg, LongDiv[ShiftLeft[p, s + sh], ShiftLeft[t, sh]], e - s]

\* x / y of the Number type, for y # 0
Divide[x \in Double, y \in Double] ==
    IF x.m = <<0>> THEN Zero(x.neg # y.neg)
    ELSE Ratio[x.neg # y.neg, x.m, y.m, x.e - y.e,
               (56 + BitLength[y.m]) - BitLength[x.m], 15 - BitLen[y.m[1]]]

\* x * c of the Number type, for an integer 0 < c < 2^15
Times[x \in Double, c \in Nat] ==
    IF x.m = <<0>> THEN x
    ELSE Round53[[neg |-> x.neg, m |-> MulAdd[x.m, c, 0], e |-> x.e]]

\* x is 0 or -0 (x || 1 is 1)
IsZero(x) == x.m = <<0>>

\* x === y for two numbers: the same double, or 0 and -0
StrictEquals(x, y) == x = y \/ (IsZero(x) /\ IsZero(y))

\* the natural number of the limbs m * 2^(-j) rounded down, j >= 0
Shifted[m \in Seq(Nat), j \in Nat] == LimbsToNat[ShiftRight[m, j]]

\* the integer nearest to h / 2, the larger one of two
HalfUp[h \in Nat] == (h \div 2) + (h % 2)

\* x.toFixed(0) for a Number x with |x| < 2^30: the nearest integer, the
\* larger of two that are equally near, after the sign of a negative x
ToFixed0[x \in Double] ==
    IF x.m = <<0>> THEN <<"0">>
    ELSE (IF x.neg THEN <<"-">> ELSE <<>>)
             \o NatToDigits(IF x.e >= 0 THEN LimbsToNat[x.m] * Pow2[x.e]
                            ELSE HalfUp[Shifted[x.m, (0 - x.e) - 1]])

\* parseFloat(s) for an optional minus sign and decimal digits, with or
\* without a point and more digits after it (at most 9 digits, 4 of them
\* after the point): the double nearest to the number written
ParseFloat(s) ==
    LET neg   == s # <<>> /\ s[1] = "-"
        parts == Split(IF neg THEN Tail(s) ELSE s, ".")
        frac  == IF Len(parts) > 1 THEN parts[2] ELSE <<>>
        n     == Num(DigitsToNat(parts[1] \o frac))
    IN  [(IF frac = <<>> THEN n ELSE Divide[n, Num(10^Len(frac))])
            EXCEPT !.neg = neg]

UpperChars == <<"A", "B", "C", "D", "E", "F", "G", "H", "I", "J", "K", "L", "M",
                "N", "O", "P", "Q", "R", "S", "T", "U", "V", "W", "X", "Y", "Z">>

LowerChars == <<"a", "b", "c", "d", "e", "f", "g", "h", "i", "j", "k", "l", "m",
                "n", "o", "p", "q", "r", "s", "t", "u", "v", "w", "x", "y", "z">>

\* s.toLowerCase() for a string of ASCII characters
ToLowerCase(s) ==
    [i \in 1..Len(s) |->
        IF \E k \in 1..26 : UpperChars[k] = s[i]
        THEN LowerChars[CHOOSE k \in 1..26 : UpperChars[k] = s[i]]
        ELSE s[i]]

\* s.includes(sub)
Includes(s, sub) ==
    \E i \in 0..(Len(s) - Len(sub)) : SubSeq(s, i + 1, i + Len(sub)) = sub

\* the characters of the titles and categories that occur in the model
Chars(str) ==
    CASE str = "Rent"      -> <<"R", "e", "n", "t">>
      [] str = "Gym"       -> <<"G", "y", "m">>
      [] str = "Pay"       -> <<"P", "a", "y">>
      [] str = "Moradia"   -> <<"M", "o", "r", "a", "d", "i", "a">>
      [] str = "Lazer"     -> <<"L", "a", "z", "e", "r">>
      [] str = "Outros"    -> <<"O", "u", "t", "r", "o", "s">>
      [] str = "Freelance" -> <<"F", "r", "e", "e", "l", "a", "n", "c", "e">>
      [] str = ""          -> <<>>

----------------------------------------------------------------------------
(* Dates *)

\* "YYYY-MM" and "YYYY-MM-DD" as the date and month inputs produce them
MonthStr(y, m) == PadStart(String(y), 4, "0") \o <<"-">> \o PadStart(String(m), 2, "0")

DateStr(y, m, d) == MonthStr(y, m) \o <<"-">> \o PadStart(String(d), 2, "0")

IsLeap(y) == (y % 4 = 0 /\ y % 100 # 0) \/ y % 400 = 0

DaysInMonth(y, m) ==
    IF m = 2 THEN (IF IsLeap(y) THEN 29 ELSE 28)
    ELSE IF m \in {4, 6, 9, 11} THEN 30 ELSE 31

\* the environment's clock: new Date()
NowDate == DateStr(2024, 3, 15)

\* new Date(date + 'T00:00:00'): the local year, month index (0..11) and day.
\* A day past the end of its month (2024-02-31) rolls over into the next
\* month where the engine's parser is lenient and is an Invalid Date (every
\* getter NaN) where it is strict.  (The two local functions name the parts
\* and their numbers, so that each is computed once.)
ParseDate(date, lenient) ==
    LET dateOf[n \in Seq(Nat)] ==
            LET y == n[1]
                m == n[2]
                d == n[3]
            IN  IF d <= DaysInMonth(y, m)
                THEN [valid |-> TRUE, year |-> y, month |-> m - 1, day |-> d]
                ELSE IF ~lenient
                THEN [valid |-> FALSE, year |-> 0, month |-> 0, day |-> 0]
                ELSE IF m = 12
                THEN [valid |-> TRUE, year |-> y + 1, month |-> 0,
                      day |-> d - DaysInMonth(y, m)]
                ELSE [valid |-> TRUE, year |-> y, month |-> m,
                      day |-> d - DaysInMonth(y, m)]
        numbers[parts \in Seq(Seq(STRING))] ==
            <<Number(parts[1]), Number(parts[2]), Number(parts[3])>>
    IN  dateOf[numbers[Split(date, "-")]]

\* new Date().getMonth() and new Date().getFullYear()
currentMonth == ParseDate(NowDate, TRUE).month

currentYear == ParseDate(NowDate, TRUE).year

\* new Date().toISOString().slice(0, 7)
InitialFilterMonth == SubSeq(NowDate, 1, 7)

----------------------------------------------------------------------------
(* TransactionList: the fixed-transaction reconciliation *)

\* prevMonthStr without the year's step back in January
prevMonthStrNoWrap(fm) ==
    LET parts == Split(fm, "-")
        year  == Number(parts[1])
        month == Number(parts[2])
        prevMonth == IF month - 1 = 0 THEN 12 ELSE month - 1
    IN  String(year) \o <<"-">> \o PadStart(String(prevMonth), 2, "0")

\* the month before filterMonth, as the template literal builds it
prevMonthStr(fm) ==
    LET parts == Split(fm, "-")
        year  == Number(parts[1])
        month == Number(parts[2])
        prevMonth == IF month - 1 = 0 THEN 12 ELSE month - 1
        prevYear  == IF month - 1 = 0 THEN year - 1 ELSE year
    IN  String(prevYear) \o <<"-">> \o PadStart(String(prevMonth), 2, "0")

\* transactions.filter(t => t.date.startsWith(prevMonthStr) && t.isFixed)
prevMonthFixed(log, fm) ==
    LET fixedOf[prefix \in Seq(STRING)] ==
            LET Keep(t) == StartsWith(t.date, prefix) /\ t.isFixed
            IN  SelectSeq(log, Keep)
    IN  fixedOf[prevMonthStr(fm)]

\* transactions.filter(t => t.date.startsWith(filterMonth))
currentMonthTx(log, fm) ==
    LET Keep(t) == StartsWith(t.date, fm)
    IN  SelectSeq(log, Keep)

\* exists matching on title and amount alone
existsTitleAmount(log, fm, prev) ==
    \E current \in {currentMonthTx(log, fm)} :
        \E i \in 1..Len(current) :
            LET curr == current[i]
            IN  /\ curr.title = prev.title
                /\ StrictEquals(curr.amount, prev.amount)

\* currentMonthTx.some(curr => same title, amount and type as prev)
exists(log, fm, prev) ==
    \E current \in {currentMonthTx(log, fm)} :
        \E i \in 1..Len(current) :
            LET curr == current[i]
            IN  /\ curr.title = prev.title
                /\ StrictEquals(curr.amount, prev.amount)
                /\ curr.type = prev.type

\* the useMemo body (onBatchAdd is always passed by App)
pendingFixedTransactions(log, fm) ==
    LET Keep(prev) == ~exists(log, fm, prev)
    IN  SelectSeq(prevMonthFixed(log, fm), Keep)

\* cloneFixed without the month's padStart
cloneFixedNoPad(t, fm, id) ==
    LET parts == Split(fm, "-")
        day   == Split(t.date, "-")[3]
        newDate == String(Number(parts[1])) \o <<"-">> \o String(Number(parts[2]))
                       \o <<"-">> \o day
    IN  [t EXCEPT !.id = id, !.date = newDate, !.isPaid = FALSE]

\* cloneFixed without the reset of isPaid
cloneFixedKeepPaid(t, fm, id) ==
    LET parts == Split(fm, "-")
        day   == Split(t.date, "-")[3]
        newDate == String(Number(parts[1])) \o <<"-">>
                       \o PadStart(String(Number(parts[2])), 2, "0")
                       \o <<"-">> \o day
    IN  [t EXCEPT !.id = id, !.date = newDate]

\* cloneFixed giving a clone that does not recur
cloneFixedNotFixed(t, fm, id) ==
    LET parts == Split(fm, "-")
        day   == Split(t.date, "-")[3]
        newDate == String(Number(parts[1])) \o <<"-">>
                       \o PadStart(String(Number(parts[2])), 2, "0")
                       \o <<"-">> \o day
    IN  [t EXCEPT !.id = id, !.date = newDate, !.isPaid = FALSE,
                  !.isFixed = FALSE]

\* the clone of one pending transaction: { ...t, id, date: newDate, isPaid: false }
cloneFixed(t, fm, id) ==
    LET parts == Split(fm, "-")
        year  == Number(parts[1])
        month == Number(parts[2])
        day   == Split(t.date, "-")[3]
        newDate == String(year) \o <<"-">> \o PadStart(String(month), 2, "0")
                       \o <<"-">> \o day
    IN  [t EXCEPT !.id = id, !.date = newDate, !.isPaid = FALSE]

\* pendingFixedTransactions.map(...): the k-th clone takes the k-th new id
newTransactions(pend, fm, ids) ==
    [k \in 1..Len(pend) |-> cloneFixed(pend[k], fm, ids + k)]

----------------------------------------------------------------------------
(* Dashboard: the month's transactions and the summary *)

\* transactions.filter(t => d.getMonth() === currentMonth && d.getFullYear() === currentYear)
monthlyTransactions(log, lenient) ==
    LET Keep(t) == LET d == ParseDate(t.date, lenient)
                   IN  d.valid /\ d.month = currentMonth /\ d.year = currentYear
    IN  SelectSeq(log, Keep)

RECURSIVE statsLoopAnyStatus(_, _, _)
\* statsLoop without the isPaid test on the expenses
statsLoopAnyStatus(list, i, acc) ==
    IF i > Len(list) THEN acc
    ELSE LET t == list[i]
         IN  statsLoopAnyStatus(list, i + 1,
               IF t.type = "income"
               THEN [acc EXCEPT !.income = Add[@, t.amount],
                                !.incomeReceived =
                                    IF t.isPaid THEN Add[@, t.amount] ELSE @]
               ELSE [acc EXCEPT !.expense = Add[@, t.amount],
                                !.expensePaid = Add[@, t.amount]])

RECURSIVE statsLoop(_, _, _)
\* the forEach over monthlyTransactions, acc holding the four running sums
statsLoop(list, i, acc) ==
    IF i > Len(list) THEN acc
    ELSE LET t == list[i]
         IN  statsLoop(list, i + 1,
               IF t.type = "income"
               THEN [acc EXCEPT !.income = Add[@, t.amount],
                                !.incomeReceived =
                                    IF t.isPaid THEN Add[@, t.amount] ELSE @]
               ELSE [acc EXCEPT !.expense = Add[@, t.amount],
                                !.expensePaid =
                                    IF t.isPaid THEN Add[@, t.amount] ELSE @])

\* computeStats with the forecast taken from the settled sums
computeStatsForecastSettled(list) ==
    LET acc == statsLoop(list, 1, [income |-> Num(0), expense |-> Num(0),
                                   incomeReceived |-> Num(0),
                                   expensePaid |-> Num(0)])
    IN  [totalIncome     |-> acc.income,
         totalExpense    |-> acc.expense,
         balance         |-> Subtract[acc.incomeReceived, acc.expensePaid],
         forecastBalance |-> Subtract[acc.incomeReceived, acc.expense],
         incomeReceived  |-> acc.incomeReceived,
         expensePaid     |-> acc.expensePaid]

\* the SummaryStats the useMemo returns
computeStats(list) ==
    LET acc == statsLoop(list, 1, [income |-> Num(0), expense |-> Num(0),
                                   incomeReceived |-> Num(0),
                                   expensePaid |-> Num(0)])
    IN  [totalIncome     |-> acc.income,
         totalExpense    |-> acc.expense,
         balance         |-> Subtract[acc.incomeReceived, acc.expensePaid],
         forecastBalance |-> Subtract[acc.income, acc.expense],
         incomeReceived  |-> acc.incomeReceived,
         expensePaid     |-> acc.expensePaid]

\* percentText dividing by the total itself: 0 / 0 is NaN
percentTextNoGuard(st) ==
    [received |-> IF IsZero(st.totalIncome) THEN <<"N", "a", "N">>
                  ELSE ToFixed0[Times[Divide[st.incomeReceived,
                                             st.totalIncome], 100]],
     paid     |-> IF IsZero(st.totalExpense) THEN <<"N", "a", "N">>
                  ELSE ToFixed0[Times[Divide[st.expensePaid,
                                             st.totalExpense], 100]]]

\* ((stats.incomeReceived / (stats.totalIncome || 1)) * 100).toFixed(0) and
\* ((stats.expensePaid / (stats.totalExpense || 1)) * 100).toFixed(0)
computePercentText(st) ==
    [received |-> ToFixed0[Times[Divide[st.incomeReceived,
                     IF IsZero(st.totalIncome) THEN Num(1)
                     ELSE st.totalIncome], 100]],
     paid     |-> ToFixed0[Times[Divide[st.expensePaid,
                     IF IsZero(st.totalExpense) THEN Num(1)
                     ELSE st.totalExpense], 100]]]

RECURSIVE categoryLoop(_, _, _)
\* the forEach of categoryData: data holds the entries of the Record in the
\* order their keys were inserted, and (data[t.category] || 0) is 0 for a
\* key that is missing or has the value 0 or -0
categoryLoop(list, i, data) ==
    IF i > Len(list) THEN data
    ELSE LET t == list[i]
         IN  categoryLoop(list, i + 1,
               IF \E k \in 1..Len(data) : data[k].name = t.category
               THEN [k \in 1..Len(data) |->
                       IF data[k].name = t.category
                       THEN [data[k] EXCEPT
                               !.value = Add[IF IsZero(@) THEN Num(0) ELSE @,
                                             t.amount]]
                       ELSE data[k]]
               ELSE Append(data, [name  |-> t.category,
                                  value |-> Add[Num(0), t.amount]]))

\* Object.entries(data).map(([name, value]) => ({ name, value }))
computeCategoryData(monthly) ==
    LET Keep(t) == t.type = "expense"
    IN  categoryLoop(SelectSeq(monthly, Keep), 1, <<>>)

\* Array.from({ length: 12 }, ...) without monthName, and the two totals
EmptyAnnual ==
    [monthly |-> [i \in 1..12 |-> [income |-> Num(0), expense |-> Num(0)]],
     totalYearIncome |-> Num(0), totalYearExpense |-> Num(0)]

RECURSIVE annualLoop(_, _, _, _)
\* the forEach of annualReportData; data[month] is entry month + 1 here
annualLoop(log, i, acc, lenient) ==
    IF i > Len(log) THEN acc
    ELSE LET t == log[i]
             d == ParseDate(t.date, lenient)
         IN  annualLoop(log, i + 1,
               IF d.valid /\ d.year = currentYear /\ t.isPaid
               THEN IF t.type = "income"
                    THEN [acc EXCEPT !.monthly[d.month + 1].income =
                                         Add[@, t.amount],
                                     !.totalYearIncome = Add[@, t.amount]]
                    ELSE [acc EXCEPT !.monthly[d.month + 1].expense =
                                         Add[@, t.amount],
                                     !.totalYearExpense = Add[@, t.amount]]
               ELSE acc,
               lenient)

\* the value the useMemo returns
computeAnnualReportData(log, lenient) == annualLoop(log, 1, EmptyAnnual, lenient)

RECURSIVE DaysBeforeMonth(_, _)
\* the days of year y that lie before its month m
DaysBeforeMonth(y, m) ==
    IF m <= 1 THEN 0 ELSE DaysBeforeMonth(y, m - 1) + DaysInMonth(y, m - 1)

\* Date.getTime() of a local midnight, counted in days: the comparisons of
\* the code are between local midnights
DayNumber(y, m, d) ==
    365 * y + ((y - 1) \div 4) - ((y - 1) \div 100) + ((y - 1) \div 400)
        + DaysBeforeMonth(y, m) + d

\* getTime() of new Date(date + 'T00:00:00') after setHours(0, 0, 0, 0), in
\* days; <<>> is NaN, the time of an Invalid Date
TimeOf(date, lenient) ==
    LET time[d \in [valid : BOOLEAN, year : Nat, month : Nat, day : Nat]] ==
            IF d.valid THEN <<DayNumber(d.year, d.month + 1, d.day)>> ELSE <<>>
    IN  time[ParseDate(date, lenient)]

\* tDate.toLocaleDateString('pt-BR'): dd/mm/yyyy
LocaleDateString(date, lenient) ==
    LET d == ParseDate(date, lenient)
    IN  PadStart(String(d.day), 2, "0") \o <<"/">>
            \o PadStart(String(d.month + 1), 2, "0") \o <<"/">> \o String(d.year)

RECURSIVE alertsLoop(_, _, _, _, _)
\* the forEach of alerts over the whole log; a comparison with NaN is false
alertsLoop(log, i, activeAlerts, today, lenient) ==
    IF i > Len(log) THEN activeAlerts
    ELSE LET t == log[i]
             tDate == TimeOf(t.date, lenient)
             threeDaysFromNow == today + 3
         IN  alertsLoop(log, i + 1,
               IF t.type = "expense" /\ ~t.isPaid
               THEN IF tDate # <<>> /\ tDate[1] < today
                    THEN Append(activeAlerts,
                           [id |-> t.id,
                            message |-> <<"\"", t.title, "\" venceu em ">>
                                           \o LocaleDateString(t.date, lenient),
                            severity |-> "danger"])
                    ELSE IF tDate # <<>> /\ tDate[1] <= threeDaysFromNow
                    THEN Append(activeAlerts,
                           [id |-> t.id,
                            message |-> <<"\"", t.title, "\" vence dia ">>
                                           \o LocaleDateString(t.date, lenient),
                            severity |-> "warning"])
                    ELSE activeAlerts
               ELSE activeAlerts,
               today, lenient)

\* computeAlerts with the overdue alerts moved to the front before the cut
computeAlertsDangerFirst(log, now, lenient) ==
    LET activeAlerts == alertsLoop(log, 1, <<>>, TimeOf(now, TRUE)[1], lenient)
        IsDanger(a) == a.severity = "danger"
        IsWarning(a) == a.severity = "warning"
        sorted == SelectSeq(activeAlerts, IsDanger)
                      \o SelectSeq(activeAlerts, IsWarning)
    IN  SubSeq(sorted, 1, IF Len(sorted) < 3 THEN Len(sorted) ELSE 3)

\* the useMemo body with new Date() = now: activeAlerts.slice(0, 3)
computeAlerts(log, now, lenient) ==
    LET activeAlerts == alertsLoop(log, 1, <<>>, TimeOf(now, TRUE)[1], lenient)
    IN  SubSeq(activeAlerts, 1,
               IF Len(activeAlerts) < 3 THEN Len(activeAlerts) ELSE 3)

----------------------------------------------------------------------------
(* TransactionList: the filtered, sorted and grouped list *)

\* the search predicate compared without toLowerCase
matchesSearchCaseSensitive(t, term) ==
    \/ Includes(Chars(t.title), term)
    \/ Includes(Chars(t.category), term)

\* t.title.toLowerCase().includes(searchTerm.toLowerCase()) ||
\* t.category.toLowerCase().includes(searchTerm.toLowerCase())
matchesSearch(t, term) ==
    \/ Includes(ToLowerCase(Chars(t.title)), ToLowerCase(term))
    \/ Includes(ToLowerCase(Chars(t.category)), ToLowerCase(term))

\* filterBase without the filter on the month
filterBaseAnyMonth(log, fm, term) ==
    LET KeepSearch(t) == matchesSearch(t, term)
    IN  SelectSeq(log, KeepSearch)

\* transactions.filter(month).filter(search): two new arrays, the log untouched
filterBase(log, fm, term) ==
    LET KeepMonth(t) == StartsWith(t.date, fm)
        KeepSearch(t) == matchesSearch(t, term)
    IN  SelectSeq(SelectSeq(log, KeepMonth), KeepSearch)

\* a stable sort by descending time, for a list whose times are all numbers:
\* an element comes after those of a later time and after those of its own
\* time that stood before it
sortStable(list, lenient) ==
    LET sorted[times \in Seq(Int)] ==
            LET before(i) ==
                    {j \in 1..Len(times) :
                        times[j] > times[i] \/ (times[j] = times[i] /\ j < i)}
            IN  [p \in 1..Len(times) |->
                    list[CHOOSE i \in 1..Len(times) :
                             Cardinality(before(i)) = p - 1]]
    IN  sorted[[i \in 1..Len(list) |-> TimeOf(list[i].date, lenient)[1]]]

\* the orders of a list
Permuted(list) ==
    {[i \in 1..Len(list) |-> list[p[i]]] :
        p \in {q \in [1..Len(list) -> 1..Len(list)] :
                  \A i, j \in 1..Len(list) : q[i] = q[j] => i = j}}

\* .sort((a, b) => new Date(b.date).getTime() - new Date(a.date).getTime()):
\* the results the sort can give.  It is stable.  With an Invalid Date in the
\* list the comparator gives NaN, taken as 0, for each pair with it: the
\* list stays as it is when all its other times are equal, and otherwise the
\* comparator is inconsistent and the order is left to the implementation.
sortOutcomes(list, lenient) ==
    LET invalid == {i \in 1..Len(list) : TimeOf(list[i].date, lenient) = <<>>}
        times == {TimeOf(list[i].date, lenient) : i \in (1..Len(list)) \ invalid}
    IN  IF invalid = {} THEN {sortStable(list, lenient)}
        ELSE IF Cardinality(times) <= 1 THEN {list}
        ELSE Permuted(list)

RECURSIVE groupLoop(_, _, _)
\* the forEach of groupedTransactions: the entries of the Record in the order
\* their keys were inserted
groupLoop(list, i, groups) ==
    IF i > Len(list) THEN groups
    ELSE LET t == list[i]
         IN  groupLoop(list, i + 1,
               IF \E k \in 1..Len(groups) : groups[k].date = t.date
               THEN [k \in 1..Len(groups) |->
                       IF groups[k].date = t.date
                       THEN [groups[k] EXCEPT !.items = Append(@, t)]
                       ELSE groups[k]]
               ELSE Append(groups, [date |-> t.date, items |-> <<t>>]))

\* Object.entries(groupedTransactions)
groupByDate(list) == groupLoop(list, 1, <<>>)

----------------------------------------------------------------------------
(* services/storage.ts: the log in localStorage *)

\* JavaScript values that a JSON text can hold: an array with its items, or
\* an object, null or a number (without items)
JsValue(type, items) == [type |-> type, items |-> items]

JsArray(items) == JsValue("array", items)

\* a string as localStorage holds it: the empty string, a text that is not
\* JSON, or the JSON text of a value
EmptyText == [chars |-> "empty", value |-> JsValue("null", <<>>)]

InvalidText == [chars |-> "invalid", value |-> JsValue("null", <<>>)]

\* JSON.stringify(v).  The transactions of the model hold strings, booleans
\* and finite numbers other than -0, which JSON.parse gives back as they
\* were.
JSONStringify(v) == [chars |-> "json", value |-> v]

\* JSON.parse(text): the value, or a SyntaxError thrown
JSONParse(text) ==
    IF text.chars = "json" THEN [threw |-> FALSE, value |-> text.value]
    ELSE [threw |-> TRUE, value |-> JsValue("null", <<>>)]

\* getTransactions(): data ? JSON.parse(data) : [], and [] from the catch
getTransactions(item) ==
    IF item = <<>> \/ item[1].chars = "empty" THEN JsArray(<<>>)
    ELSE LET parsed == JSONParse(item[1])
         IN  IF parsed.threw THEN JsArray(<<>>) ELSE parsed.value

\* saveTransactions without its try/catch: the error of setItem leaves the
\* function
saveTransactionsNoCatch(log, item, full) ==
    [item  |-> IF full THEN item ELSE <<JSONStringify(JsArray(log))>>,
     threw |-> full]

\* saveTransactions(transactions): the item after the call, and whether an
\* error left the function (the catch logs it and returns)
saveTransactions(log, item, full) ==
    [item  |-> IF full THEN item ELSE <<JSONStringify(JsArray(log))>>,
     threw |-> FALSE]

----------------------------------------------------------------------------
(* Inputs of the model *)

Tabs == {"dashboard", "transactions", "reports"}

\* CATEGORIES of types.ts (a selection), by type
Categories ==
    [income |-> {"Outros", "Freelance"}, expense |-> {"Moradia", "Lazer"}]

\* what the user enters in the form in a run of Spec
FormTypes == {"expense"}

FormAmounts == {<<>>, <<"-", "5">>, <<"7", ".", "5">>}

FormTitles == {"", "Rent"}

FormCategories == [income |-> {"Outros"}, expense |-> {"Moradia"}]

FormDates == {DateStr(2024, 1, 31)}

FormPaid == {FALSE}

FormFixed == {TRUE}

\* what the user picks in the month input of the list in a run of Spec
FilterMonths == {MonthStr(2024, 1), MonthStr(2024, 2)}

----------------------------------------------------------------------------
(* App and its children: the handlers *)

\* the render that follows a state change: each mounted child recomputes its
\* memos from the new state (log and monthly name the values once computed)
Render ==
    \E log \in {transactions'} :
        /\ pending' = IF activeTab' = "transactions"
                      THEN pendingFixedTransactions(log, filterMonth')
                      ELSE <<>>
        /\ IF activeTab' = "transactions"
           THEN \E filtered \in {filterBase(log, filterMonth', searchTerm')} :
                  \E base \in sortOutcomes(filtered, lenientDates) :
                    /\ baseTransactions' = base
                    /\ groupedTransactions' = groupByDate(base)
           ELSE /\ baseTransactions' = <<>>
                /\ groupedTransactions' = <<>>
        /\ IF activeTab' = "dashboard"
           THEN \E monthly \in {monthlyTransactions(log, lenientDates)} :
                  \E st \in {computeStats(monthly)} :
                    /\ stats' = <<st>>
                    /\ percentText' = <<computePercentText(st)>>
                    /\ categoryData' = computeCategoryData(monthly)
                    /\ annualReportData' =
                           <<computeAnnualReportData(log, lenientDates)>>
                    /\ alerts' = computeAlerts(log, NowDate, lenientDates)
           ELSE /\ stats' = <<>>
                /\ percentText' = <<>>
                /\ categoryData' = <<>>
                /\ annualReportData' = <<>>
                /\ alerts' = <<>>

\* the save effect saving the log of the commit before
saveEffectStale(log, next) ==
    \E saved \in {saveTransactions(transactions, storage, storageFull)} :
        /\ storage' = saved.item
        /\ phase' = IF saved.threw THEN "crashed" ELSE next

\* the save effect, useEffect(() => saveTransactions(transactions),
\* [transactions]), of a commit that holds the log `log`: an error leaving
\* the effect unmounts the application, and else the phase `next` follows
saveEffect(log, next) ==
    \E saved \in {saveTransactions(log, storage, storageFull)} :
        /\ storage' = saved.item
        /\ phase' = IF saved.threw THEN "crashed" ELSE next

\* the map that sets every item
replaceByIdAll(log, t) == [i \in 1..Len(log) |-> t]

\* setTransactions(prev => prev.map(item => item.id === t.id ? t : item))
replaceById(log, t) ==
    [i \in 1..Len(log) |-> IF log[i].id = t.id THEN t ELSE log[i]]

\* setTransactions(prev => prev.filter(t => t.id !== id))
removeById(log, id) ==
    LET Keep(t) == t.id # id
    IN  SelectSeq(log, Keep)

\* handleAddTransaction without the edit branch
handleAddTransactionAlwaysNew(log, editing, t) == <<t>> \o log

\* App.handleAddTransaction, as a function of the log
handleAddTransaction(log, editing, t) ==
    IF editing # <<>> THEN replaceById(log, t) ELSE <<t>> \o log

\* handleBatchAdd setting the new transactions in place of the log
handleBatchAddAlone(log, new) == new

\* App.handleBatchAdd, as a function of the log
handleBatchAdd(log, new) == new \o log

\* what a handler passes to setTransactions: the updater function of one of
\* App's handlers with the values its closure holds, or no call
Updater(op, arg) == [op |-> op, arg |-> arg]

NoUpdate == Updater("none", <<>>)

\* the updater u called with the log prev
Apply(u, prev) ==
    CASE u.op = "add"    -> handleAddTransaction(prev, u.arg[1], u.arg[2])
      [] u.op = "map"    -> replaceById(prev, u.arg[1])
      [] u.op = "filter" -> removeById(prev, u.arg[1])
      [] u.op = "batch"  -> handleBatchAdd(prev, u.arg)
      [] OTHER           -> prev

\* the updaters of a queue called one after another, from the log prev
RECURSIVE ApplyAll(_, _)
ApplyAll(queue, prev) ==
    IF queue = <<>> THEN prev
    ELSE ApplyAll(Tail(queue), Apply(Head(queue), prev))

\* the phases in which the controls of the application are mounted
Mounted == {"start", "loading", "committed", "ready"}

\* a handler that returns without a call of a setter, or whose only setter
\* gets the value that the state of a component just mounted holds: no
\* render is scheduled, and the effects that wait keep waiting
NoRender ==
    /\ phase \in Mounted
    /\ UNCHANGED vars

\* a handler that calls a setter and passes the updater u to setTransactions
\* (NoUpdate: it calls other setters alone), and the commit of its render.
\* An event is handled in one task:
\*  - effects that wait from the commit before run ahead of the render: at
\*    "start" the load effect and the save effect of the first commit, at
\*    "committed" the save effect;
\*  - createRoot: the render of a click leaves the value of the load effect
\*    waiting (it has a lower priority), computes the log from the log on
\*    screen, and the updater is called again after the loaded value when
\*    that is rendered; the save effect of the commit runs with the commit;
\*  - legacy root: the value of the load effect is rendered with the click,
\*    after the updater, and the save effect of a commit runs in a later task.
Commit(u) ==
    /\ phase \in Mounted
    /\ \E setCalled \in {u.op # "none"}, data \in {getTransactions(storage)} :
         IF legacyRoot
         THEN /\ loaded' = loaded
              /\ IF phase = "start"
                 THEN /\ transactions' = IF data.type = "array" THEN data.items
                                         ELSE transactions
                      /\ saveEffect(transactions,
                                    IF data.type = "array" THEN "committed"
                                    ELSE "crashed")
                 ELSE /\ transactions' = Apply(u, transactions)
                      /\ IF phase = "committed"
                         THEN saveEffect(transactions,
                                         IF setCalled THEN "committed"
                                         ELSE "ready")
                         ELSE /\ storage' = storage
                              /\ phase' = IF setCalled THEN "committed"
                                          ELSE phase
         ELSE /\ transactions' = Apply(u, transactions)
              /\ loaded' = IF phase = "start" THEN <<data>>
                           ELSE IF phase = "loading" /\ setCalled
                                THEN Append(loaded, u)
                                ELSE loaded
              /\ \E next \in {IF phase \in {"start", "loading"} THEN "loading"
                              ELSE "ready"} :
                   IF setCalled THEN saveEffect(transactions', next)
                   ELSE IF phase \in {"start", "committed"}
                        THEN saveEffect(transactions, next)
                        ELSE UNCHANGED <<storage, phase>>
    /\ Render
    /\ UNCHANGED <<storageFull, legacyRoot>>

\* renderList: t is one of the cards the list shows
Listed(t) ==
    /\ activeTab = "transactions"
    /\ \E k \in 1..Len(baseTransactions) : baseTransactions[k] = t

\* nav buttons: setActiveTab(tab); TransactionList mounts with the clock's month
setActiveTab(tab) ==
    IF phase = "start" /\ tab = activeTab
    THEN NoRender
    ELSE /\ activeTab' = tab
         /\ filterMonth' = IF tab # "transactions" THEN <<>>
                           ELSE IF activeTab = "transactions" THEN filterMonth
                           ELSE InitialFilterMonth
         /\ searchTerm' = IF tab = "transactions" /\ activeTab = "transactions"
                          THEN searchTerm ELSE <<>>
         /\ UNCHANGED <<isFormOpen, editingTransaction, lenientDates,
                        idCounter>>
         /\ Commit(NoUpdate)

\* the month input of the list: setFilterMonth(e.target.value)
setFilterMonth(m) ==
    /\ activeTab = "transactions"
    /\ filterMonth' = m
    /\ UNCHANGED <<isFormOpen, editingTransaction, searchTerm,
                   activeTab, lenientDates, idCounter>>
    /\ Commit(NoUpdate)

\* the search input of the list: setSearchTerm(e.target.value)
setSearchTerm(term) ==
    /\ activeTab = "transactions"
    /\ searchTerm' = term
    /\ UNCHANGED <<isFormOpen, editingTransaction, filterMonth,
                   activeTab, lenientDates, idCounter>>
    /\ Commit(NoUpdate)

\* the floating button without setEditingTransaction(null)
handleOpenAddKeepEditing ==
    /\ isFormOpen' = TRUE
    /\ UNCHANGED <<editingTransaction, filterMonth, searchTerm,
                   activeTab, lenientDates, idCounter>>
    /\ Commit(NoUpdate)

\* the floating button
handleOpenAdd ==
    /\ editingTransaction' = <<>>
    /\ isFormOpen' = TRUE
    /\ UNCHANGED <<filterMonth, searchTerm, activeTab, lenientDates, idCounter>>
    /\ Commit(NoUpdate)

\* a click on a card of the list
handleEdit(t) ==
    /\ Listed(t)
    /\ editingTransaction' = <<t>>
    /\ isFormOpen' = TRUE
    /\ UNCHANGED <<filterMonth, searchTerm, activeTab, lenientDates, idCounter>>
    /\ Commit(NoUpdate)

\* the form's close button: onClose
onClose ==
    /\ isFormOpen
    /\ isFormOpen' = FALSE
    /\ UNCHANGED <<editingTransaction, filterMonth, searchTerm, activeTab,
                   lenientDates, idCounter>>
    /\ Commit(NoUpdate)

\* TransactionForm.handleSubmit with the form's fields, then onSave and onClose
handleSubmit(type, amount, title, category, date, isPaid, isFixed) ==
    /\ isFormOpen
    /\ UNCHANGED <<filterMonth, searchTerm, activeTab, lenientDates>>
    /\ IF amount = <<>> \/ title = ""
       THEN NoRender
       ELSE LET initialData == editingTransaction
                newTransaction ==
                    [id       |-> IF initialData # <<>> THEN initialData[1].id
                                  ELSE idCounter + 1,
                     type     |-> type,
                     amount   |-> ParseFloat(amount),
                     title    |-> title,
                     category |-> category,
                     date     |-> date,
                     isPaid   |-> isPaid,
                     isFixed  |-> isFixed]
            IN  /\ initialData = <<>> => idCounter < MaxId
                /\ idCounter' = IF initialData # <<>> THEN idCounter
                                ELSE idCounter + 1
                /\ editingTransaction' = <<>>
                /\ isFormOpen' = FALSE
                /\ Commit(Updater("add", <<editingTransaction, newTransaction>>))

\* the delete button without the gate of window.confirm
handleDeleteNoConfirm(id, confirm) ==
    /\ \E i \in 1..Len(transactions) :
           Listed(transactions[i]) /\ transactions[i].id = id
    /\ UNCHANGED <<isFormOpen, editingTransaction, filterMonth, searchTerm, activeTab,
                   lenientDates, idCounter>>
    /\ Commit(Updater("filter", <<id>>))

\* the delete button of a card, with the answer of window.confirm
handleDelete(id, confirm) ==
    /\ \E i \in 1..Len(transactions) :
           Listed(transactions[i]) /\ transactions[i].id = id
    /\ UNCHANGED <<isFormOpen, editingTransaction, filterMonth, searchTerm, activeTab,
                   lenientDates, idCounter>>
    /\ IF confirm THEN Commit(Updater("filter", <<id>>)) ELSE NoRender

\* the status button of a card
handleToggleStatus(t) ==
    /\ Listed(t)
    /\ UNCHANGED <<isFormOpen, editingTransaction, filterMonth, searchTerm, activeTab,
                   lenientDates, idCounter>>
    /\ Commit(Updater("map", <<[t EXCEPT !.isPaid = ~t.isPaid]>>))

\* handleImportFixed without the confirmation gate
handleImportFixedNoConfirm(confirm) ==
    /\ activeTab = "transactions"
    /\ UNCHANGED <<isFormOpen, editingTransaction, filterMonth, searchTerm, activeTab,
                   lenientDates>>
    /\ IF Len(pending) = 0
       THEN NoRender
       ELSE /\ idCounter + Len(pending) <= MaxId
            /\ idCounter' = idCounter + Len(pending)
            /\ Commit(Updater("batch",
                              newTransactions(pending, filterMonth, idCounter)))

\* the "Copiar Fixos" button, with the answer of window.confirm
handleImportFixed(confirm) ==
    /\ activeTab = "transactions"
    /\ UNCHANGED <<isFormOpen, editingTransaction, filterMonth, searchTerm, activeTab,
                   lenientDates>>
    /\ IF Len(pending) = 0 \/ ~confirm
       THEN NoRender
       ELSE /\ idCounter + Len(pending) <= MaxId
            /\ idCounter' = idCounter + Len(pending)
            /\ Commit(Updater("batch",
                              newTransactions(pending, filterMonth, idCounter)))

\* the effects of the first commit, in which transactions is [], when no
\* event came first: the load effect reads the stored log and passes it to
\* setTransactions, then the save effect saves the log of this commit.
\* createRoot renders the loaded value in a later task; a legacy root
\* renders it in this one, and a value that is not an array unmounts the
\* application (see applyLoaded).
mount ==
    /\ phase = "start"
    /\ UNCHANGED <<isFormOpen, editingTransaction, filterMonth, searchTerm,
                   activeTab, lenientDates, legacyRoot, idCounter, storageFull>>
    /\ \E data \in {getTransactions(storage)} :
         IF ~legacyRoot
         THEN /\ loaded' = <<data>>
              /\ saveEffect(transactions, "loading")
              /\ UNCHANGED <<transactions, baseTransactions,
                             groupedTransactions, pending, stats, percentText,
                             categoryData, annualReportData, alerts>>
         ELSE /\ loaded' = <<>>
              /\ IF data.type = "array"
                 THEN /\ transactions' = data.items
                      /\ saveEffect(transactions, "committed")
                      /\ Render
                 ELSE /\ saveEffect(transactions, "crashed")
                      /\ UNCHANGED <<transactions, baseTransactions,
                                     groupedTransactions, pending, stats,
                                     percentText, categoryData,
                                     annualReportData, alerts>>

\* createRoot: the commit of the loaded value, with the updaters of the
\* handlers that ran since called again after it, and the children render
\* the log.  A value that is not an array has no filter method: the render
\* throws and the application unmounts.  No interaction caused this render,
\* so its effects run later.
applyLoaded ==
    /\ phase = "loading"
    /\ loaded' = <<>>
    /\ IF loaded[1].type = "array"
       THEN /\ transactions' = ApplyAll(Tail(loaded), loaded[1].items)
            /\ UNCHANGED <<isFormOpen, editingTransaction, filterMonth,
                           searchTerm, activeTab, lenientDates, idCounter>>
            /\ Render
            /\ phase' = "committed"
       ELSE /\ phase' = "crashed"
            /\ UNCHANGED <<transactions, isFormOpen, editingTransaction,
                           filterMonth, searchTerm, baseTransactions,
                           groupedTransactions, pending, stats, percentText,
                           categoryData, annualReportData, alerts, activeTab,
                           lenientDates, idCounter>>
    /\ UNCHANGED <<storage, storageFull, legacyRoot>>

\* the save effect of a commit whose effects run in a later task than the
\* commit (the commit of the loaded value, and each commit of a legacy
\* root), when no event came first
flushSaveEffect ==
    /\ phase = "committed"
    /\ saveEffect(transactions, "ready")
    /\ UNCHANGED <<transactions, isFormOpen, editingTransaction, filterMonth,
                   searchTerm, baseTransactions, groupedTransactions, pending,
                   stats, percentText, categoryData, annualReportData, alerts,
                   activeTab, lenientDates, legacyRoot, idCounter, storageFull,
                   loaded>>

\* the environment: the origin's storage quota is used up, or space is freed
setStorageFull(full) ==
    /\ storageFull' = full
    /\ UNCHANGED <<transactions, isFormOpen, editingTransaction, filterMonth,
                   searchTerm, baseTransactions, groupedTransactions, pending,
                   stats, percentText, categoryData, annualReportData, alerts,
                   activeTab, lenientDates, legacyRoot, idCounter, storage,
                   phase, loaded>>

----------------------------------------------------------------------------
(* The application, from its first render *)

Init ==
    /\ transactions = <<>>
    /\ isFormOpen = FALSE
    /\ editingTransaction = <<>>
    /\ activeTab = "dashboard"
    /\ filterMonth = <<>>
    /\ searchTerm = <<>>
    /\ baseTransactions = <<>>
    /\ groupedTransactions = <<>>
    /\ pending = <<>>
    /\ lenientDates \in BOOLEAN
    /\ legacyRoot = FALSE
    /\ stats = <<computeStats(monthlyTransactions(<<>>, lenientDates))>>
    /\ percentText = <<computePercentText(stats[1])>>
    /\ categoryData = <<>>
    /\ annualReportData = <<computeAnnualReportData(<<>>, lenientDates)>>
    /\ alerts = <<>>
    /\ idCounter = 0
    /\ storage = <<JSONStringify(JsArray(transactions))>>
    /\ storageFull = FALSE
    /\ phase = "ready"
    /\ loaded = <<>>

Next ==
    \/ \E tab \in Tabs : setActiveTab(tab)
    \/ \E m \in FilterMonths : setFilterMonth(m)
    \/ handleOpenAdd
    \/ \E i \in 1..Len(transactions) : handleEdit(transactions[i])
    \/ onClose
    \/ \E type \in FormTypes, amount \in FormAmounts, title \in FormTitles,
          date \in FormDates, isPaid \in FormPaid, isFixed \in FormFixed :
            \E category \in FormCategories[type] :
                handleSubmit(type, amount, title, category, date, isPaid, isFixed)
    \/ \E i \in 1..Len(transactions), confirm \in BOOLEAN :
            handleDelete(transactions[i].id, confirm)
    \/ \E i \in 1..Len(transactions) : handleToggleStatus(transactions[i])
    \/ \E confirm \in BOOLEAN : handleImportFixed(confirm)

Spec == Init /\ [][Next]_vars

----------------------------------------------------------------------------
(* The list on a stored log: reconciliation over many logs *)

\* ids of records created in earlier sessions: never those of this run (1, 2, ...)
StoredId(i) == 0 - i

\* the (title, amount, type) of the stored records: a base key and the three
\* keys that differ from it in one component
ReconKeys ==
    {<<"Rent", 7, "expense">>, <<"Gym", 7, "expense">>,
     <<"Rent", 9, "expense">>, <<"Rent", 7, "income">>}

\* a category of the stored records of a type: CATEGORIES.income[4],
\* CATEGORIES.expense[0]
StoredCategory(type) == IF type = "income" THEN "Outros" ELSE "Moradia"

\* another category of the type: CATEGORIES.income[3], CATEGORIES.expense[3]
OtherCategory(type) == IF type = "income" THEN "Freelance" ELSE "Lazer"

\* the base key
BaseKey == <<"Rent", 7, "expense">>

\* stored records without their id: at a month's end, settled and fixed, of
\* every key, and not fixed, of the base key; and on the 5th of the next
\* months, open, of every key, and in another variant, of the base key
ReconRecords ==
    {[title |-> k[1], amount |-> Num(k[2]), type |-> k[3],
      category |-> StoredCategory(k[3]), date |-> d, isPaid |-> TRUE, isFixed |-> f] :
        k \in ReconKeys, d \in {DateStr(2023, 12, 31), DateStr(2024, 1, 31)},
        f \in {TRUE}}
    \cup
    {[title |-> k[1], amount |-> Num(k[2]), type |-> k[3],
      category |-> StoredCategory(k[3]), date |-> d, isPaid |-> TRUE, isFixed |-> f] :
        k \in {BaseKey}, d \in {DateStr(2023, 12, 31), DateStr(2024, 1, 31)},
        f \in {FALSE}}
    \cup
    {[title |-> k[1], amount |-> Num(k[2]), type |-> k[3],
      category |-> OtherCategory(k[3]), date |-> d, isPaid |-> v, isFixed |-> v] :
        k \in ReconKeys, d \in {DateStr(2024, 1, 5), DateStr(2024, 2, 5)},
        v \in {FALSE}}
    \cup
    {[title |-> k[1], amount |-> Num(k[2]), type |-> k[3],
      category |-> StoredCategory(k[3]), date |-> d, isPaid |-> v, isFixed |-> v] :
        k \in {BaseKey}, d \in {DateStr(2024, 1, 5), DateStr(2024, 2, 5)},
        v \in {TRUE}}

\* a stored record with its id
WithId(r, id) ==
    [id |-> id, title |-> r.title, amount |-> r.amount, type |-> r.type,
     category |-> r.category, date |-> r.date, isPaid |-> r.isPaid,
     isFixed |-> r.isFixed]

\* the logs of at most n records of R, the i-th with the i-th stored id
StoredLogs(R, n) ==
    UNION {{[i \in 1..len |-> WithId(f[i], StoredId(i))] : f \in [1..len -> R]} :
           len \in 0..n}

ReconMonths == {MonthStr(2024, 1), MonthStr(2024, 2), MonthStr(2024, 7)}

InitRecon ==
    /\ transactions \in StoredLogs(ReconRecords, MaxReconLog)
    /\ isFormOpen = FALSE
    /\ editingTransaction = <<>>
    /\ activeTab = "transactions"
    /\ filterMonth \in ReconMonths
    /\ searchTerm = <<>>
    /\ baseTransactions \in
          sortOutcomes(filterBase(transactions, filterMonth, searchTerm),
                       lenientDates)
    /\ groupedTransactions = groupByDate(baseTransactions)
    /\ pending = pendingFixedTransactions(transactions, filterMonth)
    /\ lenientDates \in BOOLEAN
    /\ legacyRoot = FALSE
    /\ stats = <<>>
    /\ percentText = <<>>
    /\ categoryData = <<>>
    /\ annualReportData = <<>>
    /\ alerts = <<>>
    /\ idCounter = 0
    /\ storage = <<JSONStringify(JsArray(transactions))>>
    /\ storageFull = FALSE
    /\ phase = "ready"
    /\ loaded = <<>>

NextRecon ==
    \/ \E m \in ReconMonths : setFilterMonth(m)
    \/ \E confirm \in BOOLEAN : handleImportFixed(confirm)

SpecRecon == InitRecon /\ [][NextRecon]_vars

----------------------------------------------------------------------------
(* The dashboard on a stored log: the summary over many logs *)

\* the amounts 0.1 and 0.2 as the stored text gives them
Tenths(n) == ParseFloat(<<"0", ".", DigitChars[n + 1]>>)

\* stored records without their id: in the clock's month a settled and an
\* open income, and expenses in two categories of which one is also the
\* category of the incomes: 200 and 0.1 settled in one, 400 open and 0.2
\* settled in the other; a settled expense of 0.2 of an earlier month, one
\* of the year before, and one copied to a 31st of February
DashRecords ==
    {[title |-> "Rent", amount |-> Num(200), type |-> "expense",
      category |-> "Moradia", date |-> DateStr(2024, 3, 10), isPaid |-> TRUE,
      isFixed |-> FALSE],
     [title |-> "Rent", amount |-> Num(400), type |-> "expense",
      category |-> "Outros", date |-> DateStr(2024, 3, 10), isPaid |-> FALSE,
      isFixed |-> FALSE]}
    \cup
    {[title |-> "Gym", amount |-> Tenths(n), type |-> "expense",
      category |-> IF n = 1 THEN "Moradia" ELSE "Outros",
      date |-> DateStr(2024, 3, 10), isPaid |-> TRUE, isFixed |-> FALSE] :
        n \in 1..2}
    \cup
    {[title |-> "Gym", amount |-> Tenths(2), type |-> "expense",
      category |-> "Outros", date |-> DateStr(2024, 1, 31), isPaid |-> TRUE,
      isFixed |-> TRUE],
     [title |-> "Rent", amount |-> Num(200), type |-> "expense",
      category |-> "Moradia", date |-> DateStr(2023, 3, 10), isPaid |-> TRUE,
      isFixed |-> FALSE],
     [title |-> "Rent", amount |-> Num(200), type |-> "expense",
      category |-> "Moradia", date |-> DateStr(2024, 2, 31), isPaid |-> TRUE,
      isFixed |-> TRUE]}
    \cup
    {[title |-> "Pay", amount |-> Num(1000), type |-> "income",
      category |-> "Outros", date |-> DateStr(2024, 3, 10), isPaid |-> p,
      isFixed |-> FALSE] : p \in BOOLEAN}

InitDash ==
    /\ transactions \in StoredLogs(DashRecords, MaxDashLog)
    /\ isFormOpen = FALSE
    /\ editingTransaction = <<>>
    /\ activeTab = "dashboard"
    /\ filterMonth = <<>>
    /\ searchTerm = <<>>
    /\ baseTransactions = <<>>
    /\ groupedTransactions = <<>>
    /\ pending = <<>>
    /\ lenientDates \in BOOLEAN
    /\ legacyRoot = FALSE
    /\ stats = <<computeStats(monthlyTransactions(transactions, lenientDates))>>
    /\ percentText = <<computePercentText(stats[1])>>
    /\ categoryData =
          computeCategoryData(monthlyTransactions(transactions, lenientDates))
    /\ annualReportData = <<computeAnnualReportData(transactions, lenientDates)>>
    /\ alerts = computeAlerts(transactions, NowDate, lenientDates)
    /\ idCounter = 0
    /\ storage = <<JSONStringify(JsArray(transactions))>>
    /\ storageFull = FALSE
    /\ phase = "ready"
    /\ loaded = <<>>

NextDash ==
    \/ \E tab \in Tabs : setActiveTab(tab)

SpecDash == InitDash /\ [][NextDash]_vars

----------------------------------------------------------------------------
(* The dashboard on a stored log: the alerts over many logs *)

\* stored records without their id: open expenses due the day before the
\* clock's day, on it, three days and four days after it, a settled expense
\* and an open income of the day before
AlertRecords ==
    {[title |-> "Rent", amount |-> Num(200), type |-> "expense", category |-> "Moradia",
      date |-> DateStr(2024, 3, d), isPaid |-> FALSE, isFixed |-> FALSE] :
        d \in {14, 15, 18, 19}}
    \cup
    {[title |-> "Rent", amount |-> Num(200), type |-> "expense", category |-> "Moradia",
      date |-> DateStr(2024, 3, 14), isPaid |-> TRUE, isFixed |-> FALSE],
     [title |-> "Pay", amount |-> Num(1000), type |-> "income", category |-> "Outros",
      date |-> DateStr(2024, 3, 14), isPaid |-> FALSE, isFixed |-> FALSE]}

InitAlert ==
    /\ transactions \in StoredLogs(AlertRecords, MaxAlertLog)
    /\ isFormOpen = FALSE
    /\ editingTransaction = <<>>
    /\ activeTab = "dashboard"
    /\ filterMonth = <<>>
    /\ searchTerm = <<>>
    /\ baseTransactions = <<>>
    /\ groupedTransactions = <<>>
    /\ pending = <<>>
    /\ lenientDates \in BOOLEAN
    /\ legacyRoot = FALSE
    /\ stats = <<computeStats(monthlyTransactions(transactions, lenientDates))>>
    /\ percentText = <<computePercentText(stats[1])>>
    /\ categoryData =
          computeCategoryData(monthlyTransactions(transactions, lenientDates))
    /\ annualReportData = <<computeAnnualReportData(transactions, lenientDates)>>
    /\ alerts = computeAlerts(transactions, NowDate, lenientDates)
    /\ idCounter = 0
    /\ storage = <<JSONStringify(JsArray(transactions))>>
    /\ storageFull = FALSE
    /\ phase = "ready"
    /\ loaded = <<>>

NextAlert ==
    \/ \E tab \in Tabs : setActiveTab(tab)

SpecAlert == InitAlert /\ [][NextAlert]_vars

----------------------------------------------------------------------------
(* The list on a stored log: filter, search, sort and grouping over many logs *)

\* stored records without their id: in February, matched by the search terms
\* in the title alone, in the category alone and in neither, two of them of
\* one day; one of January; and one copied to a 31st of February
ListRecords ==
    {[title |-> k[1], amount |-> Num(7), type |-> "expense", category |-> k[2],
      date |-> k[3], isPaid |-> FALSE, isFixed |-> FALSE] :
        k \in {<<"Rent", "Lazer", DateStr(2024, 2, 5)>>,
               <<"Gym", "Moradia", DateStr(2024, 2, 20)>>,
               <<"Gym", "Lazer", DateStr(2024, 2, 20)>>,
               <<"Rent", "Moradia", DateStr(2024, 1, 20)>>,
               <<"Rent", "Lazer", DateStr(2024, 2, 31)>>}}

ListMonths == {MonthStr(2024, 1), MonthStr(2024, 2)}

\* what the user types in the search input
SearchTerms == {<<>>, <<"R", "E">>, <<"o", "r">>}

InitList ==
    /\ transactions \in StoredLogs(ListRecords, MaxListLog)
    /\ isFormOpen = FALSE
    /\ editingTransaction = <<>>
    /\ activeTab = "transactions"
    /\ filterMonth = MonthStr(2024, 2)
    /\ searchTerm = <<>>
    /\ lenientDates \in BOOLEAN
    /\ legacyRoot = FALSE
    /\ baseTransactions \in
          sortOutcomes(filterBase(transactions, filterMonth, searchTerm),
                       lenientDates)
    /\ groupedTransactions = groupByDate(baseTransactions)
    /\ pending = pendingFixedTransactions(transactions, filterMonth)
    /\ stats = <<>>
    /\ percentText = <<>>
    /\ categoryData = <<>>
    /\ annualReportData = <<>>
    /\ alerts = <<>>
    /\ idCounter = 0
    /\ storage = <<JSONStringify(JsArray(transactions))>>
    /\ storageFull = FALSE
    /\ phase = "ready"
    /\ loaded = <<>>

NextList ==
    \/ \E m \in ListMonths : setFilterMonth(m)
    \/ \E term \in SearchTerms : setSearchTerm(term)

SpecList == InitList /\ [][NextList]_vars

----------------------------------------------------------------------------
(* The application from its start on a stored item, with a storage that can
   be full *)

\* stored records without their id: a fixed expense of January's end
StoreRecords ==
    {[title |-> "Rent", amount |-> Num(7), type |-> "expense", category |-> "Moradia",
      date |-> DateStr(2024, 1, 31), isPaid |-> FALSE, isFixed |-> TRUE]}

\* what localStorage.getItem can return at the start: null, "", a text that
\* is not JSON, the texts "{}", "null" and "5", and the text of a saved log
StoredItems ==
    {<<>>, <<EmptyText>>, <<InvalidText>>}
    \cup {<<JSONStringify(JsValue(type, <<>>))>> :
              type \in {"object", "null", "number"}}
    \cup {<<JSONStringify(JsArray(log))>> :
              log \in StoredLogs(StoreRecords, MaxStoreLog)}

\* what the user enters in the form in a run of SpecStore
StoreAmounts == {<<"0", ".", "1">>}

StoreTitles == {"Rent"}

InitStore ==
    /\ transactions = <<>>
    /\ isFormOpen = FALSE
    /\ editingTransaction = <<>>
    /\ activeTab = "dashboard"
    /\ filterMonth = <<>>
    /\ searchTerm = <<>>
    /\ baseTransactions = <<>>
    /\ groupedTransactions = <<>>
    /\ pending = <<>>
    /\ lenientDates = TRUE
    /\ legacyRoot \in BOOLEAN
    /\ stats = <<computeStats(monthlyTransactions(<<>>, lenientDates))>>
    /\ percentText = <<computePercentText(stats[1])>>
    /\ categoryData = <<>>
    /\ annualReportData = <<computeAnnualReportData(<<>>, lenientDates)>>
    /\ alerts = <<>>
    /\ idCounter = 0
    /\ storage \in StoredItems
    /\ storageFull \in BOOLEAN
    /\ phase = "start"
    /\ loaded = <<>>

NextStore ==
    \/ mount
    \/ applyLoaded
    \/ flushSaveEffect
    \/ \E full \in BOOLEAN : setStorageFull(full)
    \/ \E tab \in {"transactions"} : setActiveTab(tab)
    \/ \E m \in {MonthStr(2024, 2)} : setFilterMonth(m)
    \/ handleOpenAdd
    \/ \E i \in 1..Len(transactions) : handleEdit(transactions[i])
    \/ onClose
    \/ \E amount \in StoreAmounts, title \in StoreTitles, date \in FormDates :
            handleSubmit("expense", amount, title, "Moradia", date, TRUE, FALSE)
    \/ \E i \in 1..Len(transactions), confirm \in BOOLEAN :
            handleDelete(transactions[i].id, confirm)
    \/ \E i \in 1..Len(transactions) : handleToggleStatus(transactions[i])
    \/ \E confirm \in BOOLEAN : handleImportFixed(confirm)

SpecStore == InitStore /\ [][NextStore]_vars

----------------------------------------------------------------------------
(* The form on a stored log: adding, editing and closing without saving *)

\* stored records without their id, of January, with an amount and a
\* category that the form of this run does not give
EditRecords ==
    {[title |-> k, amount |-> Num(5), type |-> "expense", category |-> "Lazer",
      date |-> DateStr(2024, 1, 10), isPaid |-> FALSE, isFixed |-> FALSE] :
        k \in {"Rent", "Gym"}}

\* what the user enters in the form in a run of SpecForm
EditAmounts == {<<>>, <<"9", ".", "9", "9">>}

EditTitles == {"Pay"}

EditPaid == {TRUE}

InitForm ==
    /\ transactions \in StoredLogs(EditRecords, MaxFormLog)
    /\ isFormOpen = FALSE
    /\ editingTransaction = <<>>
    /\ activeTab = "transactions"
    /\ filterMonth = MonthStr(2024, 1)
    /\ searchTerm = <<>>
    /\ lenientDates = TRUE
    /\ legacyRoot = FALSE
    /\ baseTransactions \in
          sortOutcomes(filterBase(transactions, filterMonth, searchTerm),
                       lenientDates)
    /\ groupedTransactions = groupByDate(baseTransactions)
    /\ pending = pendingFixedTransactions(transactions, filterMonth)
    /\ stats = <<>>
    /\ percentText = <<>>
    /\ categoryData = <<>>
    /\ annualReportData = <<>>
    /\ alerts = <<>>
    /\ idCounter = 0
    /\ storage = <<JSONStringify(JsArray(transactions))>>
    /\ storageFull = FALSE
    /\ phase = "ready"
    /\ loaded = <<>>

NextForm ==
    \/ handleOpenAdd
    \/ \E i \in 1..Len(transactions) : handleEdit(transactions[i])
    \/ onClose
    \/ \E amount \in EditAmounts, title \in EditTitles, date \in FormDates,
          isPaid \in EditPaid :
            handleSubmit("expense", amount, title, "Moradia", date, isPaid, TRUE)
    \/ \E i \in 1..Len(transactions), confirm \in BOOLEAN :
            handleDelete(transactions[i].id, confirm)

SpecForm == InitForm /\ [][NextForm]_vars

----------------------------------------------------------------------------
(* Vocabulary of the properties *)

\* year and month numbers of a canonical YYYY-MM or YYYY-MM-DD string
YearOf(d) == Number(SubSeq(d, 1, 4))

MonthOf(d) == Number(SubSeq(d, 6, 7))

DayOf(d) == Number(SubSeq(d, 9, 10))

\* date d lies in the calendar month (y, m)
InMonth(d, y, m) == YearOf(d) = y /\ MonthOf(d) = m

\* date d lies in the month before the month (y, m)
InMonthBefore(d, y, m) ==
    IF m = 1 THEN InMonth(d, y - 1, 12) ELSE InMonth(d, y, m - 1)

SameKey(a, b) ==
    a.title = b.title /\ StrictEquals(a.amount, b.amount) /\ a.type = b.type

Ids(log) == {log[i].id : i \in 1..Len(log)}

\* the records of the log that this run created
Created(log) == {i \in 1..Len(log) : log[i].id >= 1}

\* a step of a confirmed import with something to import
ImportStep == handleImportFixed(TRUE) /\ Len(pending) > 0

----------------------------------------------------------------------------
(* C1: once the pending fixed transactions of the filter month have been    *)
(* cloned by handleImportFixed and added by handleBatchAdd, the pending set *)
(* recomputed for the same month over the resulting log is empty.           *)
C1_ImportIdempotent ==
    [][ImportStep =>
          /\ pendingFixedTransactions(transactions', filterMonth) = <<>>
          /\ pending' = <<>>]_vars

\* an import has happened: a created record stands in the log, nothing is pending
C1_Witness ==
    /\ activeTab = "transactions"
    /\ Created(transactions) # {}
    /\ Len(transactions) > Cardinality(Created(transactions))
    /\ pending = <<>>

(* C2: every clone that handleImportFixed makes of a pending transaction t  *)
(* for the filter month has a newly generated id, different from t.id and   *)
(* from every id of the log, the title, amount, type, category and isFixed  *)
(* of t, the filter month followed by t's day of the month as its date, and *)
(* isPaid = FALSE whatever t.isPaid is.                                     *)
C2_CloneFields ==
    [][ImportStep =>
          /\ Len(transactions') = Len(pending) + Len(transactions)
          /\ \A k \in 1..Len(pending) :
                LET t == pending[k]
                    c == transactions'[k]
                IN  /\ c.id # t.id
                    /\ c.id \notin Ids(transactions)
                    /\ c.title = t.title
                    /\ c.amount = t.amount
                    /\ c.type = t.type
                    /\ c.category = t.category
                    /\ c.isFixed = t.isFixed
                    /\ c.date = filterMonth \o <<"-">> \o SubSeq(t.date, 9, 10)
                    /\ c.isPaid = FALSE]_vars

\* a clone stands in the log next to its settled source of the month before
C2_Witness ==
    /\ activeTab = "transactions"
    /\ \E i \in Created(transactions), j \in 1..Len(transactions) :
          LET c == transactions[i]
              t == transactions[j]
          IN  /\ t.id < 0
              /\ t.isPaid /\ t.isFixed /\ ~c.isPaid
              /\ SameKey(c, t)
              /\ InMonth(c.date, YearOf(filterMonth), MonthOf(filterMonth))
              /\ InMonthBefore(t.date, YearOf(filterMonth), MonthOf(filterMonth))
              /\ DayOf(c.date) = DayOf(t.date)

(* C3: a transaction of the log is pending for the filter month exactly     *)
(* when its date lies in the month before, it is fixed, and no transaction  *)
(* dated in the filter month has its title, amount and type; the category,  *)
(* day, isPaid and isFixed of the transactions of the filter month do not   *)
(* change the result.                                                       *)
IsPendingFor(log, i, y, m) ==
    /\ InMonthBefore(log[i].date, y, m)
    /\ log[i].isFixed
    /\ ~\E j \in 1..Len(log) : InMonth(log[j].date, y, m) /\ SameKey(log[j], log[i])

\* the log with the other fields of the filter month's records overwritten
Overwritten(log, y, m) ==
    [i \in 1..Len(log) |->
        IF InMonth(log[i].date, y, m)
        THEN [log[i] EXCEPT !.category = "Cartao", !.isPaid = ~@, !.isFixed = ~@,
                            !.date = SubSeq(@, 1, 8) \o <<"2", "8">>]
        ELSE log[i]]

C3_PendingExactly ==
    activeTab = "transactions" =>
        LET y == YearOf(filterMonth)
            m == MonthOf(filterMonth)
        IN  /\ pending = pendingFixedTransactions(transactions, filterMonth)
            /\ \A i \in 1..Len(transactions) :
                  (\E k \in 1..Len(pending) : pending[k] = transactions[i])
                      <=> IsPendingFor(transactions, i, y, m)
            /\ \A k \in 1..Len(pending) :
                  \E i \in 1..Len(transactions) : pending[k] = transactions[i]
            /\ pendingFixedTransactions(Overwritten(transactions, y, m), filterMonth)
                  = pending

\* one fixed transaction of the month before is pending although the filter
\* month holds a record that differs from it in the type alone
C3_Witness ==
    /\ activeTab = "transactions"
    /\ Len(transactions) = 2
    /\ pending = <<transactions[1]>>
    /\ StartsWith(transactions[2].date, filterMonth)
    /\ transactions[2].title = transactions[1].title
    /\ transactions[2].amount = transactions[1].amount
    /\ transactions[2].type # transactions[1].type

(* C4: the month before YYYY-MM is YYYY-(MM-1), the month zero-padded to    *)
(* two digits, when MM > 01, and (YYYY-1)-12 when MM = 01: 2024-01 gives    *)
(* 2023-12 and 2024-07 gives 2024-06.                                       *)
ExpectedPrev(fm) ==
    IF MonthOf(fm) > 1
    THEN SubSeq(fm, 1, 5) \o PadStart(String(MonthOf(fm) - 1), 2, "0")
    ELSE String(YearOf(fm) - 1) \o <<"-", "1", "2">>

C4_PreviousPeriod ==
    /\ activeTab = "transactions" =>
          /\ prevMonthStr(filterMonth) = ExpectedPrev(filterMonth)
          /\ \A i \in 1..Len(pending) :
                StartsWith(pending[i].date, ExpectedPrev(filterMonth))
    /\ prevMonthStr(<<"2", "0", "2", "4", "-", "0", "1">>)
          = <<"2", "0", "2", "3", "-", "1", "2">>
    /\ prevMonthStr(<<"2", "0", "2", "4", "-", "0", "7">>)
          = <<"2", "0", "2", "4", "-", "0", "6">>

\* the filter stands on a January and a December record is pending
C4_Witness ==
    /\ activeTab = "transactions"
    /\ MonthOf(filterMonth) = 1
    /\ pending # <<>>
    /\ pending[1].date = DateStr(YearOf(filterMonth) - 1, 12, 31)

(* C5: reconciliation is advisory: recomputing the pending set leaves the   *)
(* log as it is, and handleImportFixed changes the log only when the        *)
(* confirmation is answered yes and something is pending; declined, or with *)
(* nothing pending, the log stays exactly as it was.                        *)
C5_ImportAdvisory ==
    [][transactions' # transactions =>
          /\ ~(\E m \in ReconMonths : setFilterMonth(m))
          /\ ~handleImportFixed(FALSE)
          /\ ~(handleImportFixed(TRUE) /\ Len(pending) = 0)
          /\ handleImportFixed(TRUE) /\ Len(pending) > 0]_vars

\* something is pending and no import has been confirmed: the state a
\* declined import starts from and ends in
C5_Witness ==
    /\ activeTab = "transactions"
    /\ pending # <<>>
    /\ Created(transactions) = {}
    /\ idCounter = 0
    /\ ENABLED handleImportFixed(FALSE)

(* C6: after any sequence of add, edit, delete, toggle and import, every    *)
(* transaction of the log has a valid calendar date in the form YYYY-MM-DD, *)
(* its day not past the end of its month.                                   *)
ValidDate(d) ==
    /\ Len(d) = 10
    /\ d[5] = "-" /\ d[8] = "-"
    /\ \A i \in {1, 2, 3, 4, 6, 7, 9, 10} : IsDigit(d[i])
    /\ MonthOf(d) \in 1..12
    /\ DayOf(d) \in 1..DaysInMonth(YearOf(d), MonthOf(d))

C6_DatesValid ==
    \A i \in 1..Len(transactions) : ValidDate(transactions[i].date)

(* C7: every transaction of the log has amount > 0, the form rejecting a    *)
(* zero or negative amount.                                                 *)
\* x > 0
IsPositive(x) == ~x.neg /\ x.m # <<0>>

C7_AmountsPositive ==
    \A i \in 1..Len(transactions) : IsPositive(transactions[i].amount)

(* C8: with generateId fresh on every call, the ids of the records of the   *)
(* log are pairwise distinct after any sequence of add, edit, delete,       *)
(* toggle and import.                                                       *)
C8_IdsUnique ==
    \A i, j \in 1..Len(transactions) :
        transactions[i].id = transactions[j].id => i = j

\* the log holds a transaction and its imported clone, the source edited or
\* toggled since
C8_Witness ==
    /\ Len(transactions) = 2
    /\ idCounter = 2
    /\ transactions[1].date # transactions[2].date
    /\ transactions[2].isPaid
    /\ editingTransaction = <<>>

(* C9: the summary has balance = incomeReceived - expensePaid and           *)
(* forecastBalance = totalIncome - totalExpense, and balance equals         *)
(* forecastBalance when every transaction of the period is settled.         *)
C9_BalanceIdentity ==
    activeTab = "dashboard" =>
        LET st == stats[1]
            period == monthlyTransactions(transactions, lenientDates)
        IN  /\ st.balance = Subtract[st.incomeReceived, st.expensePaid]
            /\ st.forecastBalance = Subtract[st.totalIncome, st.totalExpense]
            /\ (\A i \in 1..Len(period) : period[i].isPaid) =>
                  st.balance = st.forecastBalance

\* a period of settled income and settled expense, the two balances equal
C9_Witness ==
    /\ activeTab = "dashboard"
    /\ LET period == monthlyTransactions(transactions, lenientDates)
       IN  /\ Len(period) >= 2
           /\ \A i \in 1..Len(period) : period[i].isPaid
           /\ \E i, j \in 1..Len(period) :
                 period[i].type = "income" /\ period[j].type = "expense"
    /\ stats[1].balance = stats[1].forecastBalance
    /\ ~IsZero(stats[1].balance)

(* C10: totalIncome is the sum of the amounts of the period's income        *)
(* transactions and totalExpense that of its expense transactions, settled  *)
(* or not; incomeReceived and expensePaid are the sums over the settled     *)
(* ones alone (income 1000 settled, expenses 400 open and 200 settled give  *)
(* 1000, 600, 1000, 200, balance 800 and forecast 400).                     *)
\* the amounts of the entries of list at the indices I, added one by one
\* to 0 in the order of the list
SumOver(list, I) ==
    LET upTo[k \in 0..Len(list)] ==
            IF k = 0 THEN Num(0)
            ELSE IF k \in I THEN Add[upTo[k - 1], list[k].amount]
            ELSE upTo[k - 1]
    IN  upTo[Len(list)]

C10_Sums ==
    activeTab = "dashboard" =>
        LET st == stats[1]
            period == monthlyTransactions(transactions, lenientDates)
            Of(type) == {i \in 1..Len(period) : period[i].type = type}
            Settled(type) == {i \in Of(type) : period[i].isPaid}
        IN  /\ st.totalIncome = SumOver(period, Of("income"))
            /\ st.totalExpense = SumOver(period, Of("expense"))
            /\ st.incomeReceived = SumOver(period, Settled("income"))
            /\ st.expensePaid = SumOver(period, Settled("expense"))

\* the example: income 1000 settled, expense 400 open, expense 200 settled
C10_Witness ==
    /\ activeTab = "dashboard"
    /\ LET period == monthlyTransactions(transactions, lenientDates)
       IN  /\ Len(period) = 3
           /\ period[1].type = "income" /\ period[1].amount = Num(1000)
           /\ period[1].isPaid
           /\ period[2].type = "expense" /\ period[2].amount = Num(400)
           /\ ~period[2].isPaid
           /\ period[3].type = "expense" /\ period[3].amount = Num(200)
           /\ period[3].isPaid
    /\ stats[1] = [totalIncome |-> Num(1000), totalExpense |-> Num(600),
                   balance |-> Num(800), forecastBalance |-> Num(400),
                   incomeReceived |-> Num(1000), expensePaid |-> Num(200)]

(* C11: the received and paid percentages are the quotients                 *)
(* incomeReceived / totalIncome and expensePaid / totalExpense with a total *)
(* of 0 replaced by 1, times 100 and rounded: a period without income shows *)
(* exactly 0 % received, a period without expense exactly 0 % paid, and the *)
(* text is always a number, never NaN.                                      *)
\* x * c, not rounded, for an integer 0 <= c < 2^15
Scaled(x, c) == [x EXCEPT !.m = MulAdd[x.m, c, 0]]

\* text is a natural number n with |n * total - 100 * part| <= total / 2,
\* of the values of the doubles part and total
IsPercentOf(text, part, total) ==
    /\ text # <<>>
    /\ \A k \in 1..Len(text) : IsDigit(text[k])
    /\ LET diff == Sum[Scaled(total, Number(text)), Negated(Scaled(part, 100))]
           rest == Sum[Scaled([diff EXCEPT !.neg = FALSE], 2), Negated(total)]
       IN  rest.neg \/ rest.m = <<0>>

C11_PercentZeroSafe ==
    activeTab = "dashboard" =>
        LET st == stats[1]
            period == monthlyTransactions(transactions, lenientDates)
            Of(type) == {i \in 1..Len(period) : period[i].type = type}
        IN  /\ Of("income") = {} => percentText[1].received = <<"0">>
            /\ Of("expense") = {} => percentText[1].paid = <<"0">>
            /\ IsPercentOf(percentText[1].received, st.incomeReceived,
                           IF IsZero(st.totalIncome) THEN Num(1)
                           ELSE st.totalIncome)
            /\ IsPercentOf(percentText[1].paid, st.expensePaid,
                           IF IsZero(st.totalExpense) THEN Num(1)
                           ELSE st.totalExpense)

\* a period of expenses alone, a third of them settled: 0 % received, 33 % paid
C11_Witness ==
    /\ activeTab = "dashboard"
    /\ LET period == monthlyTransactions(transactions, lenientDates)
       IN  /\ Len(period) = 2
           /\ \A i \in 1..Len(period) : period[i].type = "expense"
    /\ stats[1].totalIncome = Num(0)
    /\ stats[1].totalExpense = Num(600)
    /\ stats[1].expensePaid = Num(200)
    /\ percentText[1] = [received |-> <<"0">>, paid |-> <<"3", "3">>]

(* C12: the category breakdown has one entry for each category that occurs  *)
(* among the period's expense transactions, its value the sum of the        *)
(* amounts of those expenses, settled or not; incomes contribute nothing, a *)
(* category without an expense in the period has no entry, and the values   *)
(* sum to totalExpense.                                                     *)
\* the values of the entries of data, added one by one to 0
SumValues(data) ==
    LET upTo[k \in 0..Len(data)] ==
            IF k = 0 THEN Num(0) ELSE Add[upTo[k - 1], data[k].value]
    IN  upTo[Len(data)]

C12_CategoryBreakdown ==
    activeTab = "dashboard" =>
        LET period == monthlyTransactions(transactions, lenientDates)
            Expenses == {i \in 1..Len(period) : period[i].type = "expense"}
            In(c) == {i \in Expenses : period[i].category = c}
        IN  /\ \A i \in Expenses :
                  \E k \in 1..Len(categoryData) :
                      categoryData[k].name = period[i].category
            /\ \A k \in 1..Len(categoryData) :
                  /\ In(categoryData[k].name) # {}
                  /\ categoryData[k].value =
                         SumOver(period, In(categoryData[k].name))
            /\ \A k, l \in 1..Len(categoryData) :
                  categoryData[k].name = categoryData[l].name => k = l
            /\ SumValues(categoryData) = stats[1].totalExpense

(* C13: the annual rollup of the clock's year has exactly 12 month entries  *)
(* in calendar order, and the income and expense of each entry are the sums *)
(* of the amounts of the settled transactions dated in that month of that   *)
(* year; open transactions and transactions of other years add nothing.     *)
C13_AnnualRollup ==
    activeTab = "dashboard" =>
        LET monthly == annualReportData[1].monthly
            Settled(type, m) ==
                {i \in 1..Len(transactions) :
                    /\ transactions[i].type = type
                    /\ transactions[i].isPaid
                    /\ InMonth(transactions[i].date, currentYear, m)}
        IN  /\ DOMAIN monthly = 1..12
            /\ \A m \in 1..12 :
                  /\ monthly[m].income = SumOver(transactions, Settled("income", m))
                  /\ monthly[m].expense = SumOver(transactions, Settled("expense", m))

(* C14: with today the clock's day, a transaction of the log is alerted     *)
(* only if it is an expense and not settled; such a transaction is alerted  *)
(* as overdue (danger) when its date is before today, as due soon (warning) *)
(* when today <= date <= today + 3 days, and not at all when its date is    *)
(* later; settled expenses and incomes are never alerted.                   *)
Today == DayNumber(YearOf(NowDate), MonthOf(NowDate), DayOf(NowDate))

\* the day of a stored date string, counted as DayNumber counts
DayOfDate(date) == DayNumber(YearOf(date), MonthOf(date), DayOf(date))

\* the severity the alert rule gives a transaction, "none" for no alert
ExpectedSeverity(t) ==
    IF t.type # "expense" \/ t.isPaid THEN "none"
    ELSE IF DayOfDate(t.date) < Today THEN "danger"
    ELSE IF DayOfDate(t.date) <= Today + 3 THEN "warning"
    ELSE "none"

C14_AlertRule ==
    activeTab = "dashboard" =>
        /\ \A k \in 1..Len(alerts) :
              \E i \in 1..Len(transactions) :
                  /\ transactions[i].id = alerts[k].id
                  /\ ExpectedSeverity(transactions[i]) = alerts[k].severity
        /\ Len(alerts) < 3 =>
              \A i \in 1..Len(transactions) :
                  ExpectedSeverity(transactions[i]) # "none" =>
                      \E k \in 1..Len(alerts) : alerts[k].id = transactions[i].id

(* C15: the alert list never has more than 3 entries, and its entries are   *)
(* the first (at most 3) transactions of the log that qualify for an alert, *)
(* in the order of the log, not reordered by severity or date.              *)
QualifyingIndices(log) ==
    LET Keep(i) == ExpectedSeverity(log[i]) # "none"
    IN  SelectSeq([i \in 1..Len(log) |-> i], Keep)

C15_AlertsFirstThree ==
    activeTab = "dashboard" =>
        LET q == QualifyingIndices(transactions)
        IN  /\ Len(alerts) <= 3
            /\ Len(alerts) = IF Len(q) < 3 THEN Len(q) ELSE 3
            /\ \A k \in 1..Len(alerts) :
                  /\ alerts[k].id = transactions[q[k]].id
                  /\ alerts[k].severity = ExpectedSeverity(transactions[q[k]])

\* four open expenses in the log, the first three due soon and the last
\* overdue: the three alerts are the warnings, in the order of the log
C15_Witness ==
    /\ activeTab = "dashboard"
    /\ Len(QualifyingIndices(transactions)) = 4
    /\ ExpectedSeverity(transactions[4]) = "danger"
    /\ transactions[1].date # transactions[2].date
    /\ Len(alerts) = 3
    /\ \A k \in 1..3 : /\ alerts[k].id = transactions[k].id
                       /\ alerts[k].severity = "warning"

\* the transactions of a log whose date has the prefix fm
OfMonth(log, fm) == {log[i] : i \in {k \in 1..Len(log) : StartsWith(log[k].date, fm)}}

\* the records of a sequence
Elements(list) == {list[i] : i \in 1..Len(list)}

\* C16: when the month or the search term is changed, the list computed from
\* the log L holds only transactions of L whose date has the month as prefix,
\* without the search term it holds every such transaction once, and L is
\* the same log after it as before
C16_MonthFilterPure ==
    [][(filterMonth' # filterMonth \/ searchTerm' # searchTerm) =>
         /\ transactions' = transactions
         /\ Elements(baseTransactions') \subseteq OfMonth(transactions, filterMonth')
         /\ searchTerm' = <<>> =>
              /\ Elements(baseTransactions') = OfMonth(transactions, filterMonth')
              /\ Len(baseTransactions') =
                     Cardinality(OfMonth(transactions, filterMonth'))]_vars

\* the month was changed to January on a log with transactions of January
\* and of February: the list holds those of January alone
C16_Witness ==
    /\ activeTab = "transactions"
    /\ filterMonth = MonthStr(2024, 1)
    /\ searchTerm = <<>>
    /\ OfMonth(transactions, MonthStr(2024, 2)) # {}
    /\ baseTransactions # <<>>
    /\ Elements(baseTransactions) = OfMonth(transactions, filterMonth)

\* a and b are the same character or the two cases of one letter
SameLetter(a, b) ==
    \/ a = b
    \/ \E k \in 1..26 : {a, b} = {UpperChars[k], LowerChars[k]}

\* term occurs in text at some offset, letter for letter without regard to case
OccursIn(term, text) ==
    \E off \in 0..(Len(text) - Len(term)) :
        \A k \in 1..Len(term) : SameLetter(term[k], text[off + k])

\* C17: a transaction of the log is listed exactly when its date has the
\* month as prefix and the search term occurs, without regard to case, in its
\* title or in its category; without a term the listed transactions are
\* those of the month
C17_SearchIntersectsMonth ==
    activeTab = "transactions" =>
        /\ \A i \in 1..Len(transactions) :
              LET t == transactions[i]
              IN  Listed(t) <=>
                     /\ StartsWith(t.date, filterMonth)
                     /\ \/ OccursIn(searchTerm, Chars(t.title))
                        \/ OccursIn(searchTerm, Chars(t.category))
        /\ searchTerm = <<>> =>
              Elements(baseTransactions) = OfMonth(transactions, filterMonth)

\* the term "RE" lists a transaction titled "Rent" and one matched by its
\* category alone is left out, as is one of another month
C17_Witness ==
    /\ activeTab = "transactions"
    /\ searchTerm = <<"R", "E">>
    /\ \E i, j \in 1..Len(transactions) :
          /\ transactions[i].title = "Rent"
          /\ Listed(transactions[i])
          /\ transactions[j].title = "Gym"
          /\ StartsWith(transactions[j].date, filterMonth)
          /\ ~Listed(transactions[j])

\* a date string as a number that grows with the date
DateKey(date) ==
    LET parts == Split(date, "-")
    IN  Number(parts[1]) * 10000 + Number(parts[2]) * 100 + Number(parts[3])

\* the transactions of a list that bear a date, in the order of the list
OfDate(list, date) ==
    LET Keep(t) == t.date = date
    IN  SelectSeq(list, Keep)

\* C18: the groups are one per distinct date of the list, each holds the
\* listed transactions of its date in the order of the list, and the list is
\* in descending order of date
C18_GroupedDescending ==
    activeTab = "transactions" =>
        /\ {groupedTransactions[g].date : g \in 1..Len(groupedTransactions)}
              = {baseTransactions[i].date : i \in 1..Len(baseTransactions)}
        /\ \A g, h \in 1..Len(groupedTransactions) :
              groupedTransactions[g].date = groupedTransactions[h].date => g = h
        /\ \A g \in 1..Len(groupedTransactions) :
              groupedTransactions[g].items =
                  OfDate(baseTransactions, groupedTransactions[g].date)
        /\ \A i, j \in 1..Len(baseTransactions) :
              i < j => DateKey(baseTransactions[i].date)
                           >= DateKey(baseTransactions[j].date)

\* the stored item is the text of an array of transactions
IsStoredLog(item) ==
    item # <<>> /\ item[1].chars = "json" /\ item[1].value.type = "array"

\* C19: the value the load effect gets from getTransactions is a sequence:
\* the stored one when the stored item is the text of an array of
\* transactions, and the empty one for every other item or none
C19_LoadYieldsSequence ==
    [][(phase = "start" /\ loaded' # <<>>) =>
         /\ loaded'[1].type = "array"
         /\ loaded'[1].items = IF IsStoredLog(storage)
                               THEN storage[1].value.items ELSE <<>>]_vars

\* log2 is log after one add or import (records put in front), one delete
\* (a record taken out) or one edit or toggle (a record replaced in place)
IsMutationOf(log, log2) ==
    \/ /\ Len(log2) > Len(log)
       /\ SubSeq(log2, Len(log2) - Len(log) + 1, Len(log2)) = log
    \/ \E i \in 1..Len(log) :
          log2 = SubSeq(log, 1, i - 1) \o SubSeq(log, i + 1, Len(log))
    \/ /\ Len(log2) = Len(log)
       /\ \A i \in 1..Len(log) : log2[i].id = log[i].id

\* C20: a step that changes the log while setItem throws leaves the
\* application mounted and the stored item as it was, and when it is a
\* handler's step (not the render of the loaded log) the log in memory is
\* the changed one, whether or not an earlier save failed and in every phase
C20_SaveFailureSwallowed ==
    [][(phase \in Mounted /\ storageFull) =>
         /\ storage' = storage
         /\ (phase' = "crashed" =>
                getTransactions(storage).type # "array" \/
                (loaded # <<>> /\ loaded[1].type # "array"))
         /\ (/\ transactions' # transactions
             /\ (loaded' # <<>> \/ phase \in {"committed", "ready"})) =>
                IsMutationOf(transactions, transactions')]_vars

\* the storage is full and still holds the empty log saved at the start,
\* while two operations have put and changed records in memory
C20_Witness ==
    /\ phase = "ready"
    /\ storageFull
    /\ storage = <<JSONStringify(JsArray(<<>>))>>
    /\ Len(transactions) = 2
    /\ transactions[1].isPaid # transactions[2].isPaid

\* C21: the stored log is read in the effects of the first commit alone and
\* the value read stays the one that waits; a step that changes the log in
\* memory while setItem succeeds either leaves in storage the text of the
\* whole log in memory, or leaves the save effect waiting (phase
\* "committed"); and every step of the application that ends that wait
\* leaves in storage the text of the whole log in memory, a handler that
\* changes the log again (legacy root) the text of the log it found
C21_LoadOnceSaveAfterChange ==
    [][/\ (loaded = <<>> /\ loaded' # <<>>) => phase = "start"
       /\ (loaded # <<>> /\ loaded' # <<>>) => loaded'[1] = loaded[1]
       /\ phase' = "start" => phase = "start"
       /\ (transactions' # transactions /\ ~storageFull) =>
              \/ phase' = "committed"
              \/ /\ phase' \in {"loading", "ready"}
                 /\ storage' = <<JSONStringify(JsArray(transactions'))>>
       /\ (phase = "committed" /\ phase' = "ready" /\ ~storageFull) =>
              storage' = <<JSONStringify(JsArray(transactions'))>>
       /\ (/\ phase = "committed" /\ phase' = "committed" /\ ~storageFull
           /\ transactions' # transactions) =>
              storage' = <<JSONStringify(JsArray(transactions))>>]_vars

\* a stored log was loaded, a record was added to it and the stored text is
\* that of the two records
C21_Witness ==
    /\ phase = "ready"
    /\ ~storageFull
    /\ Len(transactions) = 2
    /\ transactions[1].id = 1
    /\ transactions[2].id = StoredId(1)
    /\ storage = <<JSONStringify(JsArray(transactions))>>

\* a and b have the same id, title, amount, type, category, date and isFixed
SameButPaid(a, b) ==
    /\ a.id = b.id /\ a.title = b.title /\ a.amount = b.amount
    /\ a.type = b.type /\ a.category = b.category /\ a.date = b.date
    /\ a.isFixed = b.isFixed

\* C22: the status button of the card of the i-th record gives a log of the
\* same length in which that record has isPaid inverted and its other fields
\* as before, and every other record is as before at its place; toggling the
\* record again gives the log as it was
C22_ToggleFrame ==
    [][\A i \in 1..Len(transactions) :
          handleToggleStatus(transactions[i]) =>
             /\ Len(transactions') = Len(transactions)
             /\ SameButPaid(transactions'[i], transactions[i])
             /\ transactions'[i].isPaid = ~transactions[i].isPaid
             /\ \A k \in 1..Len(transactions) :
                   k # i => transactions'[k] = transactions[k]
             /\ replaceById(transactions',
                            [transactions'[i] EXCEPT
                                !.isPaid = ~transactions'[i].isPaid])
                   = transactions]_vars

\* the copy that an import made, open, of the stored record has been settled
\* with the status button and stands in front of its source, which is open
C22_Witness ==
    /\ activeTab = "transactions"
    /\ Len(transactions) = 2
    /\ transactions[1].id = 1
    /\ transactions[1].date = DateStr(2024, 2, 31)
    /\ transactions[1].isPaid
    /\ transactions[2].id = StoredId(1)
    /\ ~transactions[2].isPaid

\* a log without its i-th record
Without(log, i) == SubSeq(log, 1, i - 1) \o SubSeq(log, i + 1, Len(log))

\* C23: the delete button of the card of the i-th record, confirmed, gives
\* the log without that record, the others as they were and in their order;
\* declined it leaves the log as it was, and so does the removal of an id
\* that no record has
C23_DeleteFrame ==
    [][/\ \A i \in 1..Len(transactions) :
            /\ transactions' # Without(transactions, i) =>
                   ~handleDelete(transactions[i].id, TRUE)
            /\ transactions' # transactions =>
                   ~handleDelete(transactions[i].id, FALSE)
       /\ removeById(transactions, idCounter + 1) = transactions]_vars

\* the copy that an import made of the stored record has been deleted: the
\* stored record is alone in the log and pending again
C23_Witness ==
    /\ activeTab = "transactions"
    /\ idCounter = 1
    /\ Len(transactions) = 1
    /\ transactions[1].id = StoredId(1)
    /\ pending = <<transactions[1]>>

\* C24: a save of the form opened on the record e puts the submitted
\* fields, with e's id, at the place of the record of that id, which the log
\* holds, leaves the length of the log and every other record as they were,
\* and ends the edit
C24_EditReplacesInPlace ==
    [][\A amount \in EditAmounts \ {<<>>}, title \in EditTitles,
          date \in FormDates, isPaid \in EditPaid :
          (/\ editingTransaction # <<>>
           /\ handleSubmit("expense", amount, title, "Moradia", date, isPaid, TRUE)) =>
             /\ Len(transactions') = Len(transactions)
             /\ \E i \in 1..Len(transactions) :
                   transactions[i].id = editingTransaction[1].id
             /\ \A i \in 1..Len(transactions) :
                   transactions'[i] =
                      IF transactions[i].id = editingTransaction[1].id
                      THEN [id |-> editingTransaction[1].id, type |-> "expense",
                            amount |-> ParseFloat(amount), title |-> title,
                            category |-> "Moradia", date |-> date,
                            isPaid |-> isPaid, isFixed |-> TRUE]
                      ELSE transactions[i]
             /\ editingTransaction' = <<>>
             /\ ~isFormOpen']_vars

\* C25: a clone that an import put into the month before the filter month is
\* fixed, and it is pending for the filter month whenever no transaction of
\* the filter month has its title, amount and type
C25_RecurrenceCarriesForward ==
    activeTab = "transactions" =>
        \A i \in Created(transactions) :
            LET c == transactions[i]
                y == YearOf(filterMonth)
                m == MonthOf(filterMonth)
            IN  InMonthBefore(c.date, y, m) =>
                   /\ c.isFixed
                   /\ (~\E j \in 1..Len(transactions) :
                           /\ InMonth(transactions[j].date, y, m)
                           /\ SameKey(transactions[j], c)) =>
                         \E k \in 1..Len(pending) : pending[k] = c

\* the clone that was imported into January from December is pending for
\* February
C25_Witness ==
    /\ activeTab = "transactions"
    /\ filterMonth = MonthStr(2024, 2)
    /\ \E i \in Created(transactions), j \in 1..Len(transactions) :
          /\ transactions[i].date = DateStr(2024, 1, 31)
          /\ transactions[j].date = DateStr(2023, 12, 31)
          /\ SameKey(transactions[i], transactions[j])
          /\ \E k \in 1..Len(pending) : pending[k] = transactions[i]

\* C26: a confirmed import with n transactions pending puts n new records in
\* front of the log, the k-th with a new id and the key of the k-th pending
\* transaction and with the filter month as the prefix of its date, and the
\* records that were in the log follow them unchanged and in their order
C26_ImportFrame ==
    [][ImportStep =>
          LET n == Len(pending)
          IN  /\ Len(transactions') = n + Len(transactions)
              /\ SubSeq(transactions', n + 1, Len(transactions')) = transactions
              /\ \A k \in 1..n :
                    /\ transactions'[k].id \notin Ids(transactions)
                    /\ \A h \in 1..n :
                          transactions'[h].id = transactions'[k].id => h = k
                    /\ SameKey(transactions'[k], pending[k])
                    /\ StartsWith(transactions'[k].date, filterMonth')
                    /\ filterMonth' = filterMonth]_vars

\* two clones of one import stand in front of their two stored sources
C26_Witness ==
    /\ activeTab = "transactions"
    /\ Len(transactions) = 4
    /\ Created(transactions) = {1, 2}
    /\ \A k \in 1..2 :
          /\ SameKey(transactions[k], transactions[k + 2])
          /\ StartsWith(transactions[k].date, filterMonth)
          /\ transactions[k + 2].isPaid

\* the log that a stored item holds: empty when the item is no saved log
StoredLogOf(item) == IF IsStoredLog(item) THEN item[1].value.items ELSE <<>>

\* C27: from the start until the loaded log is in memory, a step that writes
\* the stored item writes the text of the log that was stored before the
\* start: the effects of the first commit write that of the item they find,
\* and the commit of the loaded value writes nothing
C27_StartupKeepsStored ==
    [][/\ (phase = "start" /\ storage' # storage) =>
              storage' = <<JSONStringify(JsArray(StoredLogOf(storage)))>>
       /\ phase = "loading" => storage' = storage]_vars

\* C28: the floating button opens the form with no edit in progress,
\* whatever edit was left by a form closed without saving; an edit begins
\* with a click on a card and in no other way; and a save with no edit in
\* progress puts one record with the submitted fields and an id that no
\* record has in front of the log, which is otherwise unchanged
C28_AddAfterCancelledEdit ==
    [][/\ handleOpenAdd => (isFormOpen' /\ editingTransaction' = <<>>)
       /\ (editingTransaction' # editingTransaction /\ editingTransaction' # <<>>) =>
              \E i \in 1..Len(transactions) : handleEdit(transactions[i])
       /\ \A amount \in EditAmounts \ {<<>>}, title \in EditTitles,
             date \in FormDates, isPaid \in EditPaid :
             (/\ editingTransaction = <<>>
              /\ handleSubmit("expense", amount, title, "Moradia", date, isPaid, TRUE)) =>
                /\ Len(transactions') = Len(transactions) + 1
                /\ Tail(transactions') = transactions
                /\ transactions'[1].id \notin Ids(transactions)
                /\ transactions'[1] =
                      [id |-> transactions'[1].id, type |-> "expense",
                       amount |-> ParseFloat(amount), title |-> title,
                       category |-> "Moradia", date |-> date,
                       isPaid |-> isPaid, isFixed |-> TRUE]]_vars

\* the form was closed without saving on the stored record, which is as it
\* was stored, and the floating button can be pressed; a record made with
\* the form stands in front of it
C28_Witness ==
    /\ ~isFormOpen
    /\ Len(transactions) = 2
    /\ transactions[1].id = 1
    /\ transactions[2].id = StoredId(1)
    /\ transactions[2].amount = Num(5)
    /\ editingTransaction = <<transactions[2]>>
    /\ ENABLED handleOpenAdd

\* C29: in the annual rollup totalYearIncome is the sum of the income of the
\* 12 month entries and totalYearExpense the sum of their expense
C29_AnnualTotalsConsistent ==
    activeTab = "dashboard" =>
        LET annual == annualReportData[1]
            incomeTo[m \in 0..12] ==
                IF m = 0 THEN Num(0)
                ELSE Add[incomeTo[m - 1], annual.monthly[m].income]
            expenseTo[m \in 0..12] ==
                IF m = 0 THEN Num(0)
                ELSE Add[expenseTo[m - 1], annual.monthly[m].expense]
        IN  /\ annual.totalYearIncome = incomeTo[12]
            /\ annual.totalYearExpense = expenseTo[12]

====
